---------------------------- MODULE Spec2Model ----------------------------
(***************************************************************************)
(* A model of the file-opening layer of fsspec/core.py as vendored in     *)
(* this repository (src/unnamed/part_000, a compiled module): OpenFile,   *)
(* _close, get_compression, split_protocol, _un_chain, url_to_fs and      *)
(* get_fs_token_paths.                                                     *)
(*                                                                         *)
(* Python strings are modelled as sequences of one-character strings, so   *)
(* that replace, split, "in" and prefix tests are computed, not assumed.   *)
(* Python's None is the value None below.                                  *)
(***************************************************************************)
EXTENDS Integers, Sequences, FiniteSets, TLC

None == "None"

(***************************************************************************)
(* Bounds of the model.                                                    *)
(***************************************************************************)
\* how many times the filesystem's open() may be called in one behaviour
MaxOpens == 2

(***************************************************************************)
(* String helpers (Python str operations on character sequences).          *)
(***************************************************************************)
\* c in s
Contains(s, c) == \E i \in 1..Len(s) : s[i] = c

\* s.replace(c, "") for a one-character c
RECURSIVE Remove(_, _)
Remove(s, c) ==
    IF s = << >> THEN << >>
    ELSE IF Head(s) = c THEN Remove(Tail(s), c)
    ELSE <<Head(s)>> \o Remove(Tail(s), c)

\* reversed(s)
RECURSIVE Reverse(_)
Reverse(s) == IF s = << >> THEN << >> ELSE Append(Reverse(Tail(s)), Head(s))

\* the index of the last occurrence of c in s, 0 when there is none
RECURSIVE LastIndex(_, _)
LastIndex(s, c) ==
    IF s = << >> THEN 0
    ELSE IF s[Len(s)] = c THEN Len(s)
    ELSE LastIndex(SubSeq(s, 1, Len(s) - 1), c)

\* the elements of a sequence, as a set
Range(s) == {s[i] : i \in 1..Len(s)}

(***************************************************************************)
(* The compression registry and suffix inference (fsspec.compression,      *)
(* fsspec.utils: not part of the vendored file).                           *)
(***************************************************************************)
\* compr: codec name -> stream constructor.  What matters of a constructor
\* here is whether the stream it builds closes the stream it wraps when it
\* is closed; codecs differ in this, and the two of the model differ.
compr == [c \in {"gzip", "bz2"} |-> [closes_inner |-> (c = "bz2")]]

\* the known filename extensions and the codec each stands for
Extensions == {<< <<"g", "z">>, "gzip" >>, << <<"b", "z", "2">>, "bz2" >>}

\* infer_compression(filename): the codec of the last suffix, or None
infer_compression(filename) ==
    LET dot == LastIndex(filename, ".")
        ext == IF dot = 0 THEN << >> ELSE SubSeq(filename, dot + 1, Len(filename))
        hit == {e \in Extensions : e[1] = ext}
    IN  IF hit = {} THEN None ELSE (CHOOSE e \in hit : TRUE)[2]

(***************************************************************************)
(* get_compression(urlpath, compression)                                   *)
(***************************************************************************)
get_compression_unchecked(urlpath, compression) ==
    [raised |-> FALSE, error |-> None, value |-> compression]

get_compression(urlpath, compression) ==
    LET c == IF compression = "infer" THEN infer_compression(urlpath)
             ELSE compression
    IN  IF c # None /\ c \notin DOMAIN compr
        THEN [raised |-> TRUE, error |-> "ValueError", value |-> None]
        ELSE [raised |-> FALSE, error |-> None, value |-> c]

(***************************************************************************)
(* State.                                                                  *)
(***************************************************************************)
VARIABLES
    wrapper,   \* the OpenFile under study: its attributes and fobjects
    heap,      \* every stream object created so far; a layer is its index
    streams,   \* the streams handed out by OpenFile.open(), with the
               \* closure state of their rebound close()
    fs,        \* the filesystem handle: how often open() was called, and
               \* with which modes
    ev,        \* what the last operation did (its observable outcome)
    call,      \* the pending call of a path function, with its arguments
    result,    \* what that call returned or raised, or Pending
    openfiles, \* the OpenFiles collection under study: fs, mode, its
               \* members and the streams stored at entry
    trace,     \* the calls made on the collection's filesystem and members
               \* (the queries made on the database, in count_occultations)
    month,     \* count_occultations: the month the loop is at
    alldata    \* count_occultations: the records appended so far

ofvars == <<wrapper, heap, streams, fs, ev>>

filesvars == <<openfiles, trace>>

loopvars == <<month, alldata>>

callvars == <<call, result, filesvars, loopvars>>

vars ==
    <<wrapper, heap, streams, fs, ev, call, result, openfiles, trace, month,
      alldata>>

NoFile == [status |-> "none"]

\* the modes, paths and settings OpenFile is constructed with
Modes == {<<"r", "b">>, <<"r", "t">>, <<"w", "b">>, <<"w">>}

Paths ==
    { <<"a", "/", "b", ".", "t", "x", "t", ".", "g", "z">>,
      <<"l", "o", "g", ".", "t", "x", "t", ".", "b", "z", "2">>,
      <<"l", "o", "g", ".", "t", "x", "t">> }

CompressionArgs == {None, "infer", "gzip", "lzo"}

TextSettings ==
    { [encoding |-> "utf8", errors |-> "ignore", newline |-> ""] }

NoEvent ==
    [op |-> "none", raised |-> FALSE, error |-> None, before |-> << >>,
     calls |-> << >>, flushed |-> << >>, ret |-> 0, args |-> None,
     copy |-> NoFile]

(***************************************************************************)
(* OpenFile.__init__ and OpenFile.__reduce__                               *)
(***************************************************************************)
\* the positional arguments (fs, path, mode, compression, encoding, errors,
\* newline); fs is the one filesystem handle of the model
OpenFile__init__(args) ==
    LET c == get_compression(args.path, args.compression)
    IN  IF c.raised
        THEN [raised |-> TRUE, error |-> c.error, self |-> NoFile]
        ELSE [raised |-> FALSE, error |-> None,
              self |-> [status |-> "live", fs |-> args.fs, path |-> args.path,
                        mode |-> args.mode, compression |-> c.value,
                        encoding |-> args.encoding, errors |-> args.errors,
                        newline |-> args.newline, fobjects |-> << >>]]

\* __reduce__ with two of the arguments in each other's place
__reduce__swapped(self) ==
    [fs |-> self.fs, path |-> self.path, mode |-> self.mode,
     compression |-> self.compression, encoding |-> self.encoding,
     errors |-> self.newline, newline |-> self.errors]

__reduce__(self) ==
    [fs |-> self.fs, path |-> self.path, mode |-> self.mode,
     compression |-> self.compression, encoding |-> self.encoding,
     errors |-> self.errors, newline |-> self.newline]

(***************************************************************************)
(* Stream objects.                                                         *)
(***************************************************************************)
\* a new stream object: kind is "raw", "decomp" or "text"; inner is the
\* layer it wraps (0 for a raw stream); casc whether closing it closes
\* inner too; patch is the stream of `streams` whose closure replaced its
\* close attribute (0: the original close)
Layer(kind, inner, casc) ==
    [kind |-> kind, inner |-> inner, casc |-> casc, closed |-> FALSE,
     patch |-> 0]

\* the effect of a stream's own close(): it is closed, and so is the stream
\* it wraps if it closes that one too (io.TextIOWrapper.close() closes its
\* buffer)
MarkClosed(h, f) ==
    LET inner == h[f].inner
        h1    == [h EXCEPT ![f].closed = TRUE]
    IN  IF inner # 0 /\ h[f].casc
        THEN [h1 EXCEPT ![inner].closed = TRUE]
        ELSE h1

(***************************************************************************)
(* _close(fobjects, mode), and f.close() of one layer.                     *)
(*                                                                         *)
(* st = [heap, streams, calls, flushed, raised]: calls and flushed log the *)
(* layers whose close() and flush() were called, in call order.  fault     *)
(* names the layer (bad, 0 for none) whose flush or close (how) raises.    *)
(* A close() that raises leaves the layer open.                            *)
(***************************************************************************)
FFlush(st, f, fault) ==
    LET st1 == [st EXCEPT !.flushed = Append(@, f)]
    IN  IF fault.bad = f /\ fault.how = "flush"
        THEN [st1 EXCEPT !.raised = TRUE]
        ELSE st1

\* the close method the stream object was created with
OrigClose(st, f, fault) ==
    LET st1 == [st EXCEPT !.calls = Append(@, f)]
    IN  IF fault.bad = f /\ fault.how = "close"
        THEN [st1 EXCEPT !.raised = TRUE]
        ELSE [st1 EXCEPT !.heap = MarkClosed(@, f)]

RECURSIVE CloseLoop(_, _, _, _)
RECURSIVE FClose(_, _, _)

\* for f in reversed(fobjects): flush unless reading or closed; f.close();
\* then fobjects.clear().  An exception leaves the loop, and the list as it is.
_close_noclear(st, fobjects, mode, fault) ==
    [st |-> CloseLoop(st, Reverse(fobjects), mode, fault), list |-> fobjects]

_close_forward(st, fobjects, mode, fault) ==
    LET r == CloseLoop(st, fobjects, mode, fault)
    IN  [st |-> r, list |-> IF r.raised THEN fobjects ELSE << >>]

_close(st, fobjects, mode, fault) ==
    LET r == CloseLoop(st, Reverse(fobjects), mode, fault)
    IN  [st |-> r, list |-> IF r.raised THEN fobjects ELSE << >>]

\* variant: only the text layers are flushed
CloseLoop_textonly(st, todo, mode, fault) ==
    IF todo = << >> \/ st.raised THEN st
    ELSE LET f   == Head(todo)
             st1 == IF st.heap[f].kind = "text" /\ ~st.heap[f].closed
                    THEN FFlush(st, f, fault)
                    ELSE st
             st2 == IF st1.raised THEN st1 ELSE FClose(st1, f, fault)
         IN  CloseLoop(st2, Tail(todo), mode, fault)

CloseLoop(st, todo, mode, fault) ==
    IF todo = << >> \/ st.raised THEN st
    ELSE LET f   == Head(todo)
             st1 == IF ~Contains(mode, "r") /\ ~st.heap[f].closed
                    THEN FFlush(st, f, fault)
                    ELSE st
             st2 == IF st1.raised THEN st1 ELSE FClose(st1, f, fault)
         IN  CloseLoop(st2, Tail(todo), mode, fault)

\* variant: open() leaves the close of the stream it returns as it was
FClose_unpatched(st, f, fault) == OrigClose(st, f, fault)

\* f.close(): the closure installed by OpenFile.open() if f was returned by
\* open() (closer(), then _close of the captured list), else its own close
FClose(st, f, fault) ==
    IF st.heap[f].patch = 0 THEN OrigClose(st, f, fault)
    ELSE LET s   == st.heap[f].patch
             st1 == OrigClose(st, f, fault)
         IN  IF st1.raised THEN st1
             ELSE LET r == _close(st1, st1.streams[s].fobjects,
                                  st1.streams[s].mode, fault)
                  IN  [r.st EXCEPT !.streams[s].fobjects = r.list]

CloseState == [heap |-> heap, streams |-> streams, calls |-> << >>,
               flushed |-> << >>, raised |-> FALSE]

NoFault == [bad |-> 0, how |-> "none"]

\* the layers that closing the list fobjects can touch: its own, and the
\* captured lists of those among them that open() returned
Touched(fobjects) ==
    Range(fobjects) \cup
    UNION {Range(streams[heap[f].patch].fobjects) :
             f \in {g \in Range(fobjects) : heap[g].patch # 0}}

\* the failures the backend may produce while these layers are closed in the
\* given mode: none, or the close of an open layer raising, or (when flush is
\* called at all) its flush
Faults(layers, mode) ==
    {NoFault} \cup
    [bad : {f \in layers : ~heap[f].closed},
     how : IF Contains(mode, "r") THEN {"close"} ELSE {"flush", "close"}]


(***************************************************************************)
(* OpenFile.__enter__                                                      *)
(*                                                                         *)
(* r = [self, fs, heap, f, raised, error]; fail names the step that the    *)
(* backend lets fail ("open", "compress", "text") or "none".               *)
(***************************************************************************)
\* mode.replace("t", "").replace("b", "") + "b"
open_mode_as_given(mode) == mode

open_mode(mode) == Append(Remove(Remove(mode, "t"), "b"), "b")

\* f = self.fs.open(self.path, mode=mode); self.fobjects = [f]
EnterOpen(r, fail) ==
    LET mode == open_mode(r.self.mode)
        fs1  == [opens |-> r.fs.opens + 1, modes |-> r.fs.modes \cup {mode}]
        h1   == Append(r.heap, Layer("raw", 0, FALSE))
    IN  IF fail = "open"
        THEN [r EXCEPT !.fs = fs1, !.raised = TRUE, !.error = "OSError"]
        ELSE [r EXCEPT !.fs = fs1, !.heap = h1, !.f = Len(h1),
                       !.self.fobjects = <<Len(h1)>>]

\* if self.compression is not None:
\*     compress = compr[self.compression]; f = compress(f, mode=mode[0])
\*     self.fobjects.append(f)
EnterCompress(r, fail) ==
    IF r.raised \/ r.self.compression = None THEN r
    ELSE IF r.self.compression \notin DOMAIN compr
    THEN [r EXCEPT !.raised = TRUE, !.error = "KeyError"]
    ELSE IF fail = "compress"
    THEN [r EXCEPT !.raised = TRUE, !.error = "OSError"]
    ELSE LET h1 == Append(r.heap,
                            Layer("decomp", r.f,
                                  compr[r.self.compression].closes_inner))
         IN  [r EXCEPT !.heap = h1, !.f = Len(h1),
                       !.self.fobjects = Append(@, Len(h1))]

\* if "b" not in self.mode:
\*     f = io.TextIOWrapper(f, encoding=..., errors=..., newline=...)
\*     self.fobjects.append(f)
EnterText(r, fail) ==
    IF r.raised \/ Contains(r.self.mode, "b") THEN r
    ELSE IF fail = "text"
    THEN [r EXCEPT !.raised = TRUE, !.error = "LookupError"]
    ELSE LET h1 == Append(r.heap, Layer("text", r.f, TRUE))
         IN  [r EXCEPT !.heap = h1, !.f = Len(h1),
                       !.self.fobjects = Append(@, Len(h1))]

\* __enter__ variants that a slip in the code would give
__enter__text_first(self, fsv, h, fail) ==
    LET r0 == [self |-> self, fs |-> fsv, heap |-> h, f |-> 0,
               raised |-> FALSE, error |-> None]
        r  == EnterCompress(EnterText(EnterOpen(r0, fail), fail), fail)
    IN  [r EXCEPT !.f = IF r.raised THEN 0
                        ELSE r.self.fobjects[Len(r.self.fobjects)]]

__enter__returns_raw(self, fsv, h, fail) ==
    LET r0 == [self |-> self, fs |-> fsv, heap |-> h, f |-> 0,
               raised |-> FALSE, error |-> None]
        r  == EnterText(EnterCompress(EnterOpen(r0, fail), fail), fail)
    IN  [r EXCEPT !.f = IF r.raised THEN 0 ELSE r.self.fobjects[1]]

\* variant: a failing entry closes the layers it has opened
__enter__closing(self, fsv, h, fail) ==
    LET r0 == [self |-> self, fs |-> fsv, heap |-> h, f |-> 0,
               raised |-> FALSE, error |-> None]
        r  == EnterText(EnterCompress(EnterOpen(r0, fail), fail), fail)
    IN  IF r.raised
        THEN [r EXCEPT !.f = 0,
                       !.heap = [i \in 1..Len(r.heap) |->
                                    IF i \in Range(r.self.fobjects)
                                    THEN [r.heap[i] EXCEPT !.closed = TRUE]
                                    ELSE r.heap[i]]]
        ELSE [r EXCEPT !.f = r.self.fobjects[Len(r.self.fobjects)]]

\* the result's f is the returned stream, self.fobjects[-1] (0 on a raise)
__enter__(self, fsv, h, fail) ==
    LET r0 == [self |-> self, fs |-> fsv, heap |-> h, f |-> 0,
               raised |-> FALSE, error |-> None]
        r  == EnterText(EnterCompress(EnterOpen(r0, fail), fail), fail)
    IN  [r EXCEPT !.f = IF r.raised THEN 0
                        ELSE r.self.fobjects[Len(r.self.fobjects)]]

(***************************************************************************)
(* OpenFile.open(): out = self.__enter__(); closer = out.close;            *)
(* fobjects = self.fobjects.copy()[:-1]; mode = self.mode;                 *)
(* out.close = close  (the closure: closer(); _close(fobjects, mode))      *)
(*                                                                         *)
(* A stream of `streams` is the closure's state: out, the captured list    *)
(* fobjects (the closure's own copy), the captured mode; opened records    *)
(* the layers that this open() call created, held whether the caller       *)
(* keeps the returned stream.                                              *)
(***************************************************************************)
\* a closure that captures none of the layers under the returned stream
Captured_none(fobjects) == << >>

\* self.fobjects.copy()[:-1]
Captured(fobjects) == SubSeq(fobjects, 1, Len(fobjects) - 1)

OpenFile_open(self, fsv, h, ss, fail, held) ==
    LET r == __enter__(self, fsv, h, fail)
    IN  IF r.raised
        THEN [self |-> r.self, fs |-> r.fs, heap |-> r.heap, streams |-> ss,
              f |-> 0, raised |-> TRUE, error |-> r.error]
        ELSE LET s == [out |-> r.f, fobjects |-> Captured(r.self.fobjects),
                       mode |-> self.mode, opened |-> r.self.fobjects,
                       held |-> held]
                 ss1 == Append(ss, s)
             IN  [self |-> r.self, fs |-> r.fs,
                  heap |-> [r.heap EXCEPT ![r.f].patch = Len(ss1)],
                  streams |-> ss1, f |-> r.f, raised |-> FALSE,
                  error |-> None]

(***************************************************************************)
(* The operations, as actions.                                             *)
(***************************************************************************)
Live == wrapper.status = "live"

\* OpenFile(fs, path, mode, compression, encoding, errors, newline)
Construct ==
    /\ wrapper.status = "none"
    /\ \E path \in Paths, mode \in Modes, c \in CompressionArgs,
          t \in TextSettings :
          LET args == [fs |-> "fs", path |-> path, mode |-> mode,
                       compression |-> c, encoding |-> t.encoding,
                       errors |-> t.errors, newline |-> t.newline]
              r    == OpenFile__init__(args)
          IN  /\ wrapper' = r.self
              /\ ev' = [NoEvent EXCEPT !.op = "init", !.raised = r.raised,
                                       !.error = r.error, !.args = args]
    /\ UNCHANGED <<heap, streams, fs, callvars>>

\* pickling: __reduce__, and the constructor applied to the reduced
\* arguments; ev.copy is the rebuilt OpenFile
Pickle ==
    /\ Live
    /\ LET args == __reduce__(wrapper)
           r    == OpenFile__init__(args)
       IN  ev' = [NoEvent EXCEPT !.op = "pickle", !.raised = r.raised,
                                 !.error = r.error, !.args = args,
                                 !.before = wrapper.fobjects,
                                 !.copy = r.self]
    /\ UNCHANGED <<wrapper, heap, streams, fs, callvars>>

\* with wrapper as f: ...   (entry)
Enter ==
    /\ Live
    /\ fs.opens < MaxOpens
    /\ \E fail \in {"none", "open", "compress", "text"} :
          LET r == __enter__(wrapper, fs, heap, fail)
          IN  /\ wrapper' = r.self
              /\ fs' = r.fs
              /\ heap' = r.heap
              /\ ev' = [NoEvent EXCEPT !.op = "enter", !.raised = r.raised,
                                       !.error = r.error, !.ret = r.f,
                                       !.before = wrapper.fobjects]
    /\ UNCHANGED <<streams, callvars>>

\* wrapper.open(), and wrapper.__fspath__() = self.open().__fspath__(), which
\* keeps no reference to the stream
Open ==
    /\ Live
    /\ fs.opens < MaxOpens
    /\ \E fail \in {"none", "open", "compress", "text"}, held \in BOOLEAN :
          LET r == OpenFile_open(wrapper, fs, heap, streams, fail, held)
          IN  /\ wrapper' = r.self
              /\ fs' = r.fs
              /\ heap' = r.heap
              /\ streams' = r.streams
              /\ ev' = [NoEvent EXCEPT
                           !.op = IF held THEN "open" ELSE "fspath",
                           !.raised = r.raised, !.error = r.error,
                           !.ret = r.f, !.before = wrapper.fobjects]
    /\ UNCHANGED callvars

\* __exit__(*args) and close(): both are _close(self.fobjects, self.mode).
\* how is the way the scope is left; __exit__ ignores it.
CloseWrapper(op) ==
    /\ Live
    /\ \E fault \in Faults(Touched(wrapper.fobjects), wrapper.mode) :
          LET r == _close(CloseState, wrapper.fobjects, wrapper.mode, fault)
          IN  /\ wrapper' = [wrapper EXCEPT !.fobjects = r.list]
              /\ heap' = r.st.heap
              /\ streams' = r.st.streams
              /\ ev' = [NoEvent EXCEPT !.op = op, !.raised = r.st.raised,
                                       !.error = IF r.st.raised THEN "OSError"
                                                 ELSE None,
                                       !.before = wrapper.fobjects,
                                       !.calls = r.st.calls,
                                       !.flushed = r.st.flushed]
    /\ UNCHANGED <<fs, callvars>>

Exit == CloseWrapper("exit")

Close == CloseWrapper("close")

\* s.close() on a stream returned by open(): the rebound close
StreamClose ==
    \E s \in 1..Len(streams) :
       /\ streams[s].held
       /\ \E fault \in Faults(Touched(<<streams[s].out>>), streams[s].mode) :
             LET r == FClose(CloseState, streams[s].out, fault)
             IN  /\ heap' = r.heap
                 /\ streams' = r.streams
                 /\ ev' = [NoEvent EXCEPT
                              !.op = "sclose", !.raised = r.raised,
                              !.error = IF r.raised THEN "OSError" ELSE None,
                              !.before = streams[s].fobjects,
                              !.calls = r.calls, !.flushed = r.flushed,
                              !.ret = s]
       /\ UNCHANGED <<wrapper, fs, callvars>>

\* __del__: self.fobjects.clear().  Finalisation of the stream objects by
\* the runtime is not modelled: they stay as they are.
Del ==
    /\ Live
    /\ wrapper' = [wrapper EXCEPT !.status = "deleted", !.fobjects = << >>]
    /\ ev' = [NoEvent EXCEPT !.op = "del", !.before = wrapper.fobjects]
    /\ UNCHANGED <<heap, streams, fs, callvars>>

\* no OpenFile yet, nothing opened
NoMonth == [year |-> 0, month |-> 0, day |-> 0]

OpenFileInit ==
    /\ openfiles = NoFile
    /\ trace = << >>
    /\ month = NoMonth
    /\ alldata = << >>
    /\ wrapper = NoFile
    /\ heap = << >>
    /\ streams = << >>
    /\ fs = [opens |-> 0, modes |-> {}]
    /\ ev = NoEvent

Pending == [status |-> "pending"]

NoCall == [fn |-> "none"]

Init ==
    /\ OpenFileInit
    /\ call = NoCall
    /\ result = Pending

Next ==
    \/ Construct
    \/ Pickle
    \/ Enter
    \/ Open
    \/ Exit
    \/ Close
    \/ StreamClose
    \/ Del

Spec == Init /\ [][Next]_vars


(***************************************************************************)
(* Properties of OpenFile, checked under Spec.                             *)
(***************************************************************************)
EntryOps == {"enter", "open", "fspath"}

IsPrefix(a, b) == Len(a) <= Len(b) /\ SubSeq(b, 1, Len(a)) = a

\* no layer of the list was returned by open() (its close is its own)
Unpatched(fobjects) == \A f \in Range(fobjects) : heap[f].patch = 0

\* C1: after __enter__ (also when open() or __fspath__ calls it) the tracked
\* layers are the raw stream, then a decompressor iff compression is not
\* None, then a text wrapper iff the mode has no "b", each wrapping the one
\* before it, and the returned stream is the last of them; __exit__ on layers
\* tracked by __enter__ calls close() on them in the reverse of that order:
\* always a prefix of the reversed list, and all of it when no close or flush
\* raised.
C1_LayerOrder ==
    /\ (ev.op \in EntryOps /\ ~ev.raised) =>
          LET fo   == wrapper.fobjects
              comp == wrapper.compression # None
              text == ~Contains(wrapper.mode, "b")
              n    == 1 + (IF comp THEN 1 ELSE 0) + (IF text THEN 1 ELSE 0)
          IN  /\ Len(fo) = n
              /\ heap[fo[1]].kind = "raw"
              /\ comp => heap[fo[2]].kind = "decomp"
              /\ text => heap[fo[n]].kind = "text"
              /\ \A i \in 1..n : (heap[fo[i]].kind = "decomp") => (comp /\ i = 2)
              /\ \A i \in 1..n : (heap[fo[i]].kind = "text") => (text /\ i = n)
              /\ \A i \in 2..n : heap[fo[i]].inner = fo[i - 1]
              /\ ev.ret = fo[n]
              /\ (wrapper.compression = "gzip" /\ text) => n = 3
    /\ (ev.op = "exit" /\ Unpatched(ev.before)) =>
          /\ IsPrefix(ev.calls, Reverse(ev.before))
          /\ ~ev.raised => ev.calls = Reverse(ev.before)

\* a scope over gzip in text mode was entered and left: three layers, closed
\* text, decompressor, raw
C1_Witness ==
    /\ ev.op = "exit" /\ ~ev.raised
    /\ wrapper.compression = "gzip" /\ ~Contains(wrapper.mode, "b")
    /\ Len(ev.before) = 3 /\ Unpatched(ev.before)
    /\ heap[ev.calls[1]].kind = "text"
    /\ heap[ev.calls[2]].kind = "decomp"
    /\ heap[ev.calls[3]].kind = "raw"

\* C2: after __exit__, also when a layer's flush or close raised, every layer
\* that was tracked is closed, close() was called on them in reverse order,
\* and the tracked-layer list is empty.
C2_ExitClosesAll ==
    (ev.op = "exit" /\ Unpatched(ev.before)) =>
        /\ wrapper.fobjects = << >>
        /\ \A f \in Range(ev.before) : heap[f].closed
        /\ ev.calls = Reverse(ev.before)

\* C3: close() on a wrapper whose list is empty (never entered, or entered
\* and closed) raises nothing and leaves the list empty; a close() that
\* returns leaves the list empty; before the first entry the list is empty.
C3_CloseIdempotent ==
    /\ (ev.op = "close" /\ ev.before = << >>) =>
          (~ev.raised /\ wrapper.fobjects = << >> /\ ev.calls = << >>)
    /\ (ev.op = "close" /\ ~ev.raised) => wrapper.fobjects = << >>
    /\ (wrapper.status = "live" /\ fs.opens = 0) => wrapper.fobjects = << >>

\* close() was called again on a wrapper that had been entered and closed
C3_Witness ==
    /\ ev.op = "close" /\ ev.before = << >> /\ ~ev.raised
    /\ \E f \in 1..Len(heap) : heap[f].closed
    /\ wrapper.fobjects = << >>

\* C4: every step either is an entry (__enter__, open(), __fspath__) and
\* calls the filesystem's open() exactly once, or is another operation
\* (construction, rebuilding from the reduced form, close, ...) and leaves
\* the filesystem handle untouched; open() is only ever called with a
\* binary mode.
C4_OpenOnlyOnEntry ==
    [][ /\ (ev'.op \in EntryOps) => (fs'.opens = fs.opens + 1)
        /\ (ev'.op \notin EntryOps) => (fs' = fs)
        /\ \A m \in fs'.modes : Contains(m, "b") /\ ~Contains(m, "t")
      ]_vars

\* a text-mode wrapper was constructed, entered and rebuilt from its reduced
\* form, and open() was called once
C4_Witness ==
    /\ ev.op = "pickle" /\ fs.opens = 1
    /\ ~Contains(wrapper.mode, "b")
    /\ wrapper.fobjects # << >>

\* C5: construction raises ValueError exactly when the compression, after
\* "infer" is replaced by the codec of the suffix, is neither None nor a
\* registered codec; a constructed wrapper stores None or a registered
\* codec, never "infer"; and no entry fails on the codec lookup.
C5_CompressionCheckedAtConstruction ==
    /\ (ev.op = "init") =>
          LET c == IF ev.args.compression = "infer"
                   THEN infer_compression(ev.args.path)
                   ELSE ev.args.compression
          IN  /\ ev.raised <=> (c # None /\ c \notin DOMAIN compr)
              /\ ev.raised => (ev.error = "ValueError" /\ wrapper.status = "none")
              /\ ~ev.raised => wrapper.compression = c
    /\ (wrapper.status = "live") =>
          (wrapper.compression \in ({None} \cup DOMAIN compr)
           /\ wrapper.compression # "infer")
    /\ (ev.op \in EntryOps) => ev.error # "KeyError"

\* construction with an unregistered codec name has failed
C5_Witness ==
    /\ ev.op = "init" /\ ev.raised /\ ev.error = "ValueError"
    /\ ev.args.compression = "lzo"
    /\ fs.opens = 0

SameAttributes(a, b) ==
    /\ a.fs = b.fs /\ a.path = b.path /\ a.mode = b.mode
    /\ a.compression = b.compression /\ a.encoding = b.encoding
    /\ a.errors = b.errors /\ a.newline = b.newline

\* C6: the wrapper rebuilt from __reduce__() is constructed without error,
\* has the attributes of the original (the resolved compression included)
\* and no tracked layers, in whatever state the original is.
C6_ReduceRoundTrip ==
    (ev.op = "pickle") =>
        /\ ~ev.raised
        /\ ev.copy.status = "live"
        /\ SameAttributes(ev.copy, wrapper)
        /\ ev.copy.fobjects = << >>
        /\ wrapper.fobjects = ev.before

\* an open wrapper whose compression was inferred from "a/b.txt.gz" was rebuilt
C6_Witness ==
    /\ ev.op = "pickle"
    /\ wrapper.path = <<"a", "/", "b", ".", "t", "x", "t", ".", "g", "z">>
    /\ wrapper.compression = "gzip"
    /\ Len(wrapper.fobjects) >= 2
    /\ ev.copy.fobjects = << >>

\* C7: when the rebound close() of a stream returned by open() returns, it
\* has called the stream's own close first and then close() on the captured
\* layers in reverse order of opening, every layer that open() call opened is
\* closed, and the captured list is empty; the wrapper is not involved.
C7_StreamCloseClosesAll ==
    (ev.op = "sclose" /\ ~ev.raised) =>
        LET s == streams[ev.ret]
        IN  /\ ev.calls = <<s.out>> \o Reverse(ev.before)
            /\ \A f \in Range(s.opened) : heap[f].closed
            /\ s.fobjects = << >>

\* a stream over a decompressor was closed after the wrapper was deleted
C7_Witness ==
    /\ ev.op = "sclose" /\ ~ev.raised
    /\ wrapper.status = "deleted"
    /\ Len(ev.before) = 2
    /\ Len(ev.calls) = 3
    /\ heap[ev.calls[2]].kind = "decomp"
    /\ heap[ev.calls[3]].kind = "raw"


(***************************************************************************)
(* URL handling: more str operations.                                      *)
(***************************************************************************)
\* None where the other values are strings (character sequences)
NoneStr == <<"None">>

\* s.startswith(p)
StartsWith(s, p) == Len(p) <= Len(s) /\ SubSeq(s, 1, Len(p)) = p

\* the index of the first occurrence of sub in s at or after i, 0 when there
\* is none
RECURSIVE FindFrom(_, _, _)
FindFrom(s, sub, i) ==
    IF i + Len(sub) - 1 > Len(s) THEN 0
    ELSE IF SubSeq(s, i, i + Len(sub) - 1) = sub THEN i
    ELSE FindFrom(s, sub, i + 1)

\* s.find(sub) + 1
Find(s, sub) == FindFrom(s, sub, 1)

\* sub in s
HasSub(s, sub) == Find(s, sub) # 0

\* s.split(sep)
RECURSIVE Split(_, _)
Split(s, sep) ==
    LET i == Find(s, sep)
    IN  IF i = 0 THEN <<s>>
        ELSE <<SubSeq(s, 1, i - 1)>>
                 \o Split(SubSeq(s, i + Len(sep), Len(s)), sep)

\* s.rstrip(c) for a one-character c
RECURSIVE RStrip(_, _)
RStrip(s, c) ==
    IF s # << >> /\ s[Len(s)] = c THEN RStrip(SubSeq(s, 1, Len(s) - 1), c)
    ELSE s

\* "://" and "::"
ProtoSep == <<":", "/", "/">>

ChainSep == <<":", ":">>

\* stringify_path (fsspec.utils): a str is returned as it is; the paths of
\* the model are all str
stringify_path(filepath) == filepath

(***************************************************************************)
(* split_protocol                                                          *)
(***************************************************************************)
\* variant: any non-empty prefix is a protocol
split_protocol_nonempty(urlpath) ==
    LET i == Find(stringify_path(urlpath), ProtoSep)
    IN  IF i > 1
        THEN <<SubSeq(urlpath, 1, i - 1), SubSeq(urlpath, i + 3, Len(urlpath))>>
        ELSE <<NoneStr, urlpath>>

\* urlpath.split("://", 1) when "://" is in urlpath, and the pair is
\* returned when len(protocol) > 1; else (None, urlpath)
split_protocol(urlpath) ==
    LET u        == stringify_path(urlpath)
        i        == Find(u, ProtoSep)
        protocol == SubSeq(u, 1, i - 1)
        path     == SubSeq(u, i + 3, Len(u))
    IN  IF i # 0 /\ Len(protocol) > 1 THEN <<protocol, path>>
        ELSE <<NoneStr, u>>

\* the longest path split_protocol is applied to
MaxPathLen == 6

\* the characters of those paths
SplitAlphabet == {"c", ":", "/"}

RECURSIVE StringsUpTo(_, _)
StringsUpTo(alphabet, n) ==
    IF n = 0 THEN {<< >>}
    ELSE LET shorter == StringsUpTo(alphabet, n - 1)
         IN  shorter \cup {Append(t, c) : t \in shorter, c \in alphabet}

SplitInputs == StringsUpTo(SplitAlphabet, MaxPathLen)

Returned(v) == [status |-> "returned", value |-> v]

SplitInit ==
    /\ OpenFileInit
    /\ call \in {[fn |-> "split_protocol", urlpath |-> p] : p \in SplitInputs}
    /\ result = Pending

\* split_protocol(urlpath)
SplitCall ==
    /\ call.fn = "split_protocol"
    /\ result = Pending
    /\ result' = Returned(split_protocol(call.urlpath))
    /\ UNCHANGED <<ofvars, call, filesvars, loopvars>>

SplitNext == SplitCall

SpecSplit == SplitInit /\ [][SplitNext]_vars

(***************************************************************************)
(* Properties of split_protocol, checked under SpecSplit.                  *)
(***************************************************************************)
SplitDone == call.fn = "split_protocol" /\ result # Pending

\* the inputs split in two at every position where "://" occurs
SepPositions(u) ==
    {i \in 1..Len(u) : i + 2 <= Len(u) /\ SubSeq(u, i, i + 2) = ProtoSep}

\* C8 (as stated): (None, path) for a path without "://"; a path with "://"
\* is split at the first occurrence whenever the part before it is non-empty
\* and (None, path) is returned only when that part is empty.
C8_SplitWheneverNonEmpty ==
    SplitDone =>
        LET u == call.urlpath
            P == SepPositions(u)
        IN  /\ P = {} => result.value = <<NoneStr, u>>
            /\ P # {} =>
                 LET i == CHOOSE k \in P : \A j \in P : k <= j
                 IN  IF i > 1
                     THEN result.value
                            = <<SubSeq(u, 1, i - 1), SubSeq(u, i + 3, Len(u))>>
                     ELSE result.value = <<NoneStr, u>>

\* C8 (amended): (None, path) for a path without "://"; a path with "://" is
\* split at the first occurrence into (protocol, remainder), the two joined
\* by "://" giving the path back, exactly when the part before it has two
\* characters or more; with an empty or a one-character part before it the
\* result is (None, path).
C8_SplitProtocol ==
    SplitDone =>
        LET u == call.urlpath
            P == SepPositions(u)
            v == result.value
        IN  /\ P = {} => v = <<NoneStr, u>>
            /\ P # {} =>
                 LET i == CHOOSE k \in P : \A j \in P : k <= j
                 IN  /\ i > 2 => /\ v[1] = SubSeq(u, 1, i - 1)
                                 /\ v[1] \o ProtoSep \o v[2] = u
                                 /\ ~HasSub(v[1], ProtoSep)
                     /\ i <= 2 => v = <<NoneStr, u>>

\* a split at the first of two "://", and a one-character prefix left whole
C8_Witness ==
    /\ SplitDone
    /\ \/ /\ call.urlpath = <<"c", "c", ":", "/", "/", "c">>
          /\ result.value = << <<"c", "c">>, <<"c">> >>
       \/ /\ call.urlpath = <<"c", ":", "/", "/", "c">>
          /\ result.value = <<NoneStr, call.urlpath>>


(***************************************************************************)
(* Keyword-argument dictionaries: functions whose keys are strings.        *)
(***************************************************************************)
\* {}
EmptyDict == << >>

\* d.get(k, {})
DictGet(d, k) == IF k \in DOMAIN d THEN d[k] ELSE EmptyDict

Ok(v, made) == [raised |-> FALSE, error |-> None, value |-> v, made |-> made]

Raise(e, made) == [raised |-> TRUE, error |-> e, value |-> None, made |-> made]

\* dict(**a, **b): a repeated keyword is a TypeError
DictStarStar(a, b) ==
    IF DOMAIN a \cap DOMAIN b # {} THEN Raise("TypeError", << >>)
    ELSE Ok(a @@ b, << >>)

\* the strings the code and the registry name
S_file ==
    <<"f", "i", "l", "e">>

S_memory ==
    <<"m", "e", "m", "o", "r", "y">>

S_ftp ==
    <<"f", "t", "p">>

S_simplecache ==
    <<"s", "i", "m", "p", "l", "e", "c", "a", "c", "h", "e">>

S_filecache ==
    <<"f", "i", "l", "e", "c", "a", "c", "h", "e">>

S_blockcache ==
    <<"b", "l", "o", "c", "k", "c", "a", "c", "h", "e">>

S_host ==
    <<"h", "o", "s", "t">>

S_target_protocol ==
    <<"t", "a", "r", "g", "e", "t", "_", "p", "r", "o", "t", "o", "c", "o", "l">>

S_target_options ==
    <<"t", "a", "r", "g", "e", "t", "_", "o", "p", "t", "i", "o", "n", "s">>

S_fo ==
    <<"f", "o">>

(***************************************************************************)
(* The filesystem registry and its classes (fsspec.registry, fsspec.spec,  *)
(* fsspec.implementations: not part of the vendored file).  A class is     *)
(* known by its protocol name; an instance is its class and the options    *)
(* it was constructed with.                                                *)
(***************************************************************************)
known_implementations ==
    {S_file, S_memory, S_ftp, S_simplecache, S_filecache, S_blockcache}

\* get_filesystem_class(protocol): no protocol means the local filesystem,
\* an unknown one is a ValueError
get_filesystem_class(protocol) ==
    IF protocol = NoneStr \/ protocol = << >> THEN Ok(S_file, << >>)
    ELSE IF protocol \in known_implementations THEN Ok(protocol, << >>)
    ELSE Raise("ValueError", << >>)

\* the working directory of the process
cwd == <<"/", "w">>

\* cls._strip_protocol(path): the class's own "proto://" or "proto::" prefix
\* is removed and trailing "/" dropped; the local filesystem also makes the
\* path absolute
_strip_protocol(cls, path) ==
    LET bare == IF StartsWith(path, cls \o ProtoSep)
                THEN SubSeq(path, Len(cls) + 4, Len(path))
                ELSE IF StartsWith(path, cls \o ChainSep)
                THEN SubSeq(path, Len(cls) + 3, Len(path))
                ELSE path
    IN  IF cls = S_file
        THEN RStrip(IF StartsWith(bare, <<"/">>) THEN bare
                    ELSE cwd \o <<"/">> \o bare, "/")
        ELSE RStrip(bare, "/")

\* cls._get_kwargs_from_urls(path): the ftp class takes the host from the
\* URL, the other classes take nothing
_get_kwargs_from_urls(cls, path) ==
    IF cls = S_ftp /\ StartsWith(path, S_ftp \o ProtoSep)
    THEN LET rest == SubSeq(path, Len(S_ftp) + 4, Len(path))
         IN  S_host :> Split(rest, <<"/">>)[1]
    ELSE EmptyDict

\* update_storage_options(options, inherited): the given options are laid
\* over the URL-derived ones
update_storage_options(options, inherited) == inherited @@ options

\* filesystem(protocol, **storage_options), cls(**storage_options)
filesystem(protocol, storage_options) ==
    [cls |-> protocol, options |-> storage_options]


(***************************************************************************)
(* _un_chain                                                               *)
(***************************************************************************)
Lower ==
    {"a", "b", "c", "d", "e", "f", "g", "h", "i", "j", "k", "l", "m",
     "n", "o", "p", "q", "r", "s", "t", "u", "v", "w", "x", "y", "z"}

\* re.compile(".*[^a-z]+.*").match(p): p has a character outside a-z
x_match(p) == \E i \in 1..Len(p) : p[i] \notin Lower

\* the bits of path: its "::"-separated parts, a bare lower-case word
\* being completed to "word://"
chain_bits(path) ==
    IF HasSub(path, ChainSep)
    THEN LET parts == Split(path, ChainSep)
         IN  [i \in 1..Len(parts) |->
                 IF HasSub(parts[i], ProtoSep) \/ x_match(parts[i])
                 THEN parts[i]
                 ELSE parts[i] \o ProtoSep]
    ELSE <<path>>

CacheProtocols == {S_blockcache, S_filecache, S_simplecache}

\* kw = dict(**extra_kwargs, **kws)
SegmentKwargs(extra_kwargs, kws) == DictStarStar(extra_kwargs, kws)

\* variant: every segment keeps its own stripped bit
SegmentPath_own(protocol, kw, bit, previous_bit) == bit

\* the path of a segment: its stripped bit, or for a cache protocol without
\* a target_protocol option the path of the segment visited before it
SegmentPath(protocol, kw, bit, previous_bit) ==
    IF protocol \in CacheProtocols /\ S_target_protocol \notin DOMAIN kw
    THEN previous_bit
    ELSE bit

\* the loop over reversed(bits): rbits are the bits still to visit, out the
\* descriptors appended so far
RECURSIVE UnChainLoop(_, _, _, _)
UnChainLoop(rbits, kwargs, previous_bit, out) ==
    IF rbits = << >> THEN Ok(Reverse(out), << >>)
    ELSE LET bit      == Head(rbits)
             sp       == split_protocol(bit)[1]
             protocol == IF sp = NoneStr THEN S_file ELSE sp
             cls      == get_filesystem_class(protocol)
         IN  IF cls.raised THEN cls
             ELSE LET extra_kwargs == _get_kwargs_from_urls(cls.value, bit)
                      kws == DictGet(kwargs, protocol)
                      kw  == SegmentKwargs(extra_kwargs, kws)
                  IN  IF kw.raised THEN kw
                      ELSE LET b == SegmentPath(protocol, kw.value,
                                        _strip_protocol(cls.value, bit),
                                        previous_bit)
                           IN  UnChainLoop(Tail(rbits), kwargs, b,
                                   Append(out, <<b, protocol, kw.value>>))

\* variant: the descriptors stay in the order the loop made them
_un_chain_as_visited(path, kwargs) ==
    LET bits == chain_bits(path)
        r    == UnChainLoop(Reverse(bits), kwargs, NoneStr, << >>)
    IN  IF Len(bits) < 2 THEN Ok(<< >>, << >>)
        ELSE IF r.raised THEN r
        ELSE Ok(Reverse(r.value), << >>)

\* _un_chain(path, kwargs) for a str path: no descriptors for an unchained
\* path, else one (path, protocol, options) for each bit, in the order of
\* the bits
_un_chain(path, kwargs) ==
    LET bits == chain_bits(path)
    IN  IF Len(bits) < 2 THEN Ok(<< >>, << >>)
        ELSE UnChainLoop(Reverse(bits), kwargs, NoneStr, << >>)

(***************************************************************************)
(* url_to_fs                                                               *)
(***************************************************************************)
\* the loop over enumerate(reversed(chain)) that nests the options: rchain
\* is reversed(chain), i the position (from 1) of the descriptor visited
\* variant: each level's target_options are the segment's own options only
RECURSIVE InKwargsLoop_flat(_, _, _)
InKwargsLoop_flat(rchain, i, inkwargs) ==
    IF i > Len(rchain) THEN Ok(inkwargs, << >>)
    ELSE LET merged == DictStarStar(rchain[i][3], inkwargs)
         IN  IF merged.raised THEN merged
             ELSE IF i = Len(rchain) THEN Ok(merged.value, << >>)
             ELSE InKwargsLoop_flat(rchain, i + 1,
                      (S_target_options :> rchain[i][3])
                          @@ (S_target_protocol :> rchain[i][2])
                          @@ (S_fo :> rchain[i][1])
                          @@ inkwargs)

RECURSIVE InKwargsLoop(_, _, _)
InKwargsLoop(rchain, i, inkwargs) ==
    IF i > Len(rchain) THEN Ok(inkwargs, << >>)
    ELSE LET urls     == rchain[i][1]
             protocol == rchain[i][2]
             kw       == rchain[i][3]
             merged   == DictStarStar(kw, inkwargs)
         IN  IF merged.raised THEN merged
             ELSE IF i = Len(rchain) THEN Ok(merged.value, << >>)
             ELSE InKwargsLoop(rchain, i + 1,
                      (S_target_options :> merged.value)
                          @@ (S_target_protocol :> protocol)
                          @@ (S_fo :> urls)
                          @@ inkwargs)

\* variant: the path of the innermost segment is returned
ChainPath_last(chain) == chain[Len(chain)][1]

\* urlpath, protocol, _ = chain[0]
ChainPath(chain) == chain[1][1]

\* variant: an unchained URL is resolved with the options of the URL alone
url_to_fs_urlonly(url, kwargs) ==
    LET chain == _un_chain(url, kwargs)
    IN  IF chain.raised THEN chain
        ELSE IF Len(chain.value) > 1
        THEN LET inkwargs == InKwargsLoop(Reverse(chain.value), 1, EmptyDict)
             IN  IF inkwargs.raised THEN inkwargs
                 ELSE LET fsys == filesystem(chain.value[1][2], inkwargs.value)
                      IN  Ok(<<fsys, ChainPath(chain.value)>>, <<fsys>>)
        ELSE LET protocol == split_protocol(url)[1]
                 cls      == get_filesystem_class(protocol)
             IN  IF cls.raised THEN cls
                 ELSE LET fsys == filesystem(cls.value,
                                      _get_kwargs_from_urls(cls.value, url))
                      IN  Ok(<<fsys, _strip_protocol(cls.value, url)>>,
                             <<fsys>>)

\* url_to_fs(url, **kwargs) for a str url: the value is (fs, urlpath), made
\* are the filesystems instantiated
url_to_fs(url, kwargs) ==
    LET chain == _un_chain(url, kwargs)
    IN  IF chain.raised THEN chain
        ELSE IF Len(chain.value) > 1
        THEN LET inkwargs == InKwargsLoop(Reverse(chain.value), 1, EmptyDict)
             IN  IF inkwargs.raised THEN inkwargs
                 ELSE LET fsys == filesystem(chain.value[1][2], inkwargs.value)
                      IN  Ok(<<fsys, ChainPath(chain.value)>>, <<fsys>>)
        ELSE LET protocol == split_protocol(url)[1]
                 cls      == get_filesystem_class(protocol)
             IN  IF cls.raised THEN cls
                 ELSE LET options ==
                              update_storage_options(
                                  _get_kwargs_from_urls(cls.value, url), kwargs)
                          fsys == filesystem(cls.value, options)
                      IN  Ok(<<fsys, _strip_protocol(cls.value, url)>>,
                             <<fsys>>)


(***************************************************************************)
(* Sorting, globbing and name functions (builtins, fsspec.spec and         *)
(* fsspec.utils: not part of the vendored file).                           *)
(***************************************************************************)
\* the characters of the model in code-point order
Ascii ==
    <<"*", ".", "/", "0", "1", "2", "3", "4", "5", "6", "7", "8", "9", ":",
      "a", "b", "c", "d", "e", "f", "g", "h", "i", "j", "k", "l", "m",
      "n", "o", "p", "q", "r", "s", "t", "u", "v", "w", "x", "y", "z">>

ord(c) == CHOOSE i \in 1..Len(Ascii) : Ascii[i] = c

\* a < b for str
RECURSIVE StrLess(_, _)
StrLess(a, b) ==
    IF b = << >> THEN FALSE
    ELSE IF a = << >> THEN TRUE
    ELSE IF Head(a) = Head(b) THEN StrLess(Tail(a), Tail(b))
    ELSE ord(Head(a)) < ord(Head(b))

\* sorted(S) for a set of str
RECURSIVE sorted(_)
sorted(S) ==
    IF S = {} THEN << >>
    ELSE LET least == CHOOSE a \in S : \A b \in S \ {a} : StrLess(a, b)
         IN  <<least>> \o sorted(S \ {least})

\* a "*" of the pattern stands for any run of characters without "/"
RECURSIVE GlobMatch(_, _)
GlobMatch(pat, s) ==
    IF pat = << >> THEN s = << >>
    ELSE IF Head(pat) = "*"
    THEN \/ GlobMatch(Tail(pat), s)
         \/ s # << >> /\ Head(s) # "/" /\ GlobMatch(pat, Tail(s))
    ELSE s # << >> /\ Head(s) = Head(pat) /\ GlobMatch(Tail(pat), Tail(s))

\* what the storage holds: two files and a directory under d
StoredFiles == {<<"d", "/", "x">>, <<"d", "/", "y">>}

StoredDirs == {<<"d", "/", "z">>}

\* fs.glob(path): the entries matching the pattern, in order
glob(fsys, path) ==
    sorted({f \in StoredFiles \cup StoredDirs : GlobMatch(path, f)})

\* fs.isdir(path)
isdir(fsys, path) == path \in StoredDirs

\* str(i) for i >= 0
RECURSIVE str(_)
str(i) ==
    IF i < 10 THEN <<Ascii[i + 4]>> ELSE str(i \div 10) \o <<Ascii[(i % 10) + 4]>>

\* s.zfill(width)
RECURSIVE zfill(_, _)
zfill(s, width) == IF Len(s) >= width THEN s ELSE zfill(<<"0">> \o s, width)

\* build_name_function(max_int)(i): i in decimal, padded with zeros to the
\* number of digits of max_int
build_name_function(max_int, i) ==
    zfill(str(i), IF max_int < 1 THEN 0 ELSE Len(str(max_int)))

\* s.count(c) for a one-character c
count(s, c) == Cardinality({i \in 1..Len(s) : s[i] = c})

\* s.replace("*", t)
RECURSIVE ReplaceStar(_, _)
ReplaceStar(s, t) ==
    IF s = << >> THEN << >>
    ELSE IF Head(s) = "*" THEN t \o ReplaceStar(Tail(s), t)
    ELSE <<Head(s)>> \o ReplaceStar(Tail(s), t)

\* os.path.join(path, "*.part")
JoinPart(path) ==
    LET part == <<"*", ".", "p", "a", "r", "t">>
    IN  IF path = << >> \/ path[Len(path)] = "/" THEN path \o part
        ELSE path \o <<"/">> \o part

\* the concatenation of a sequence of lists
RECURSIVE Flatten(_)
Flatten(ls) == IF ls = << >> THEN << >> ELSE Head(ls) \o Flatten(Tail(ls))

(***************************************************************************)
(* _expand_paths and expand_paths_if_needed                                *)
(***************************************************************************)
\* _expand_paths(path, name_function, num) for a str path and no
\* name_function
_expand_paths(path, num) ==
    IF count(path, "*") > 1 THEN Raise("ValueError", << >>)
    ELSE LET masked == IF ~Contains(path, "*") THEN JoinPart(path) ELSE path
         IN  Ok([i \in 1..num |->
                    ReplaceStar(masked, build_name_function(num - 1, i - 1))],
                << >>)

\* variant: the number of paths holding a mask is not checked
expand_paths_if_needed_unchecked(paths, mode, num, fsys) ==
    LET w == Contains(mode, "w")
        n == IF w /\ Len(paths) > num THEN Len(paths) ELSE num
        each == [i \in 1..Len(paths) |->
                    IF Contains(paths[i], "*")
                    THEN IF w THEN _expand_paths(paths[i], n)
                         ELSE Ok(glob(fsys, paths[i]), << >>)
                    ELSE Ok(<<paths[i]>>, << >>)]
        expanded_paths == Flatten([i \in 1..Len(paths) |-> each[i].value])
    IN  IF \E i \in 1..Len(paths) : each[i].raised
        THEN Raise("ValueError", << >>)
        ELSE IF w /\ Len(expanded_paths) > n
        THEN Ok(SubSeq(expanded_paths, 1, n), << >>)
        ELSE Ok(expanded_paths, << >>)

\* variant: the expanded list is returned whole in write mode as well
expand_paths_if_needed_whole(paths, mode, num, fsys) ==
    LET w == Contains(mode, "w")
    IN  IF w /\ Cardinality({i \in 1..Len(paths) : Contains(paths[i], "*")}) > 1
        THEN Raise("ValueError", << >>)
        ELSE LET n == IF w /\ Len(paths) > num THEN Len(paths) ELSE num
                 each == [i \in 1..Len(paths) |->
                             IF Contains(paths[i], "*")
                             THEN IF w THEN _expand_paths(paths[i], n)
                                  ELSE Ok(glob(fsys, paths[i]), << >>)
                             ELSE Ok(<<paths[i]>>, << >>)]
             IN  IF \E i \in 1..Len(paths) : each[i].raised
                 THEN Raise("ValueError", << >>)
                 ELSE Ok(Flatten([i \in 1..Len(paths) |-> each[i].value]),
                         << >>)

\* expand_paths_if_needed(paths, mode, num, fs, name_function)
expand_paths_if_needed(paths, mode, num, fsys) ==
    LET w == Contains(mode, "w")
    IN  IF w /\ Cardinality({i \in 1..Len(paths) : Contains(paths[i], "*")}) > 1
        THEN Raise("ValueError", << >>)
        ELSE LET n == IF w /\ Len(paths) > num THEN Len(paths) ELSE num
                 each == [i \in 1..Len(paths) |->
                             IF Contains(paths[i], "*")
                             THEN IF w THEN _expand_paths(paths[i], n)
                                  ELSE Ok(glob(fsys, paths[i]), << >>)
                             ELSE Ok(<<paths[i]>>, << >>)]
                 expanded_paths == Flatten([i \in 1..Len(paths) |-> each[i].value])
             IN  IF \E i \in 1..Len(paths) : each[i].raised
                 THEN Raise("ValueError", << >>)
                 ELSE IF w /\ Len(expanded_paths) > n
                 THEN Ok(SubSeq(expanded_paths, 1, n), << >>)
                 ELSE Ok(expanded_paths, << >>)


(***************************************************************************)
(* _un_chain for a list of paths, and get_fs_token_paths.  A value that    *)
(* is a str or a list of str is modelled as [islist, v].                   *)
(***************************************************************************)
AStr(s) == [islist |-> FALSE, v |-> s]

AList(l) == [islist |-> TRUE, v |-> l]

Min(S) == CHOOSE a \in S : \A b \in S : a <= b

\* the descriptor built from pbit, the descriptors the paths have at one
\* position of their chains
ZipDescriptor(pbit) ==
    LET paths     == [i \in 1..Len(pbit) |-> pbit[i][1]]
        protocols == [i \in 1..Len(pbit) |-> pbit[i][2]]
    IN  IF Cardinality(Range(protocols)) > 1 THEN Raise("ValueError", << >>)
        ELSE Ok(<<IF Cardinality(Range(paths)) = 1 THEN AStr(paths[1])
                  ELSE AList(paths),
                  protocols[1], pbit[1][3]>>, << >>)

\* _un_chain(path, kwargs) for a list path: the chains of the elements,
\* zipped position by position
_un_chain_list(path, kwargs) ==
    LET bits == [i \in 1..Len(path) |-> _un_chain(path[i], kwargs)]
    IN  IF \E i \in 1..Len(path) : bits[i].raised
        THEN bits[Min({i \in 1..Len(path) : bits[i].raised})]
        ELSE LET n   == IF path = << >> THEN 0
                        ELSE Min({Len(bits[i].value) : i \in 1..Len(path)})
                 out == [j \in 1..n |->
                            ZipDescriptor([i \in 1..Len(path) |->
                                              bits[i].value[j]])]
             IN  IF \E j \in 1..n : out[j].raised
                 THEN Raise("ValueError", << >>)
                 ELSE Ok([j \in 1..n |-> out[j].value], << >>)

\* the value a descriptor's paths have where they are passed on as "fo"
FoValue(paths) == IF paths.islist THEN [list |-> paths.v] ELSE paths.v

\* the chained branch of get_fs_token_paths: chain holds (paths, protocol,
\* options) with paths an [islist, v]
ChainedFs(chain) ==
    LET plain    == [j \in 1..Len(chain) |->
                        <<FoValue(chain[j][1]), chain[j][2], chain[j][3]>>]
        inkwargs == InKwargsLoop(Reverse(plain), 1, EmptyDict)
    IN  IF inkwargs.raised THEN inkwargs
        ELSE LET fsys  == filesystem(chain[1][2], inkwargs.value)
                 paths == chain[1][1]
                 each  == IF paths.islist THEN paths.v ELSE <<paths.v>>
             IN  IF \E i \in 1..Len(each) : each[i] = NoneStr
                 THEN Raise("AttributeError", <<fsys>>)
                 ELSE Ok(<<fsys,
                           [paths EXCEPT !.v =
                               IF paths.islist
                               THEN [i \in 1..Len(each) |->
                                        _strip_protocol(fsys.cls, each[i])]
                               ELSE _strip_protocol(fsys.cls, paths.v)]>>,
                         <<fsys>>)

\* variant: the protocols of the elements are not compared
UnchainedListFs_uncompared(urlpath, storage_options, protocol) ==
    LET proto == IF protocol = NoneStr THEN split_protocol(urlpath[1])[1]
                 ELSE protocol
        cls   == get_filesystem_class(proto)
    IN  IF cls.raised THEN cls
        ELSE LET fsys == filesystem(cls.value,
                             update_storage_options(
                                 _get_kwargs_from_urls(cls.value, urlpath[1]),
                                 storage_options))
             IN  Ok(<<fsys, AList([i \in 1..Len(urlpath) |->
                                      _strip_protocol(cls.value, urlpath[i])])>>,
                    <<fsys>>)

\* the unchained branch for a list: one protocol and one set of URL-derived
\* options for all the elements
UnchainedListFs(urlpath, storage_options, protocol) ==
    LET protocols == [i \in 1..Len(urlpath) |-> split_protocol(urlpath[i])[1]]
        proto     == IF protocol = NoneStr THEN protocols[1] ELSE protocol
    IN  IF protocol = NoneStr
           /\ \E i \in 1..Len(urlpath) : protocols[i] # proto
        THEN Raise("ValueError", << >>)
        ELSE LET cls == get_filesystem_class(proto)
             IN  IF cls.raised THEN cls
                 ELSE LET optionss == [i \in 1..Len(urlpath) |->
                                 _get_kwargs_from_urls(cls.value, urlpath[i])]
                          paths == [i \in 1..Len(urlpath) |->
                                 _strip_protocol(cls.value, urlpath[i])]
                      IN  IF \E i \in 1..Len(urlpath) :
                                optionss[i] # optionss[1]
                          THEN Raise("ValueError", << >>)
                          ELSE LET fsys == filesystem(cls.value,
                                       update_storage_options(optionss[1],
                                                              storage_options))
                               IN  Ok(<<fsys, AList(paths)>>, <<fsys>>)

\* the unchained branch for a str
UnchainedStrFs(urlpath, storage_options, protocol) ==
    LET protocols == split_protocol(urlpath)[1]
        proto     == IF protocol = NoneStr THEN protocols ELSE protocol
        cls       == get_filesystem_class(proto)
    IN  IF cls.raised THEN cls
        ELSE LET fsys == filesystem(cls.value,
                             update_storage_options(
                                 _get_kwargs_from_urls(cls.value, urlpath),
                                 storage_options))
             IN  Ok(<<fsys, AStr(_strip_protocol(cls.value, urlpath))>>,
                    <<fsys>>)

\* the last stage of get_fs_token_paths: the paths are expanded
FinalPaths(fsys, paths, mode, num, expand) ==
    IF paths.islist THEN expand_paths_if_needed(paths.v, mode, num, fsys)
    ELSE IF Contains(mode, "w") /\ expand THEN _expand_paths(paths.v, num)
    ELSE IF Contains(paths.v, "*")
    THEN LET found == glob(fsys, paths.v)
         IN  Ok(SelectSeq(found, LAMBDA f : ~isdir(fsys, f)), << >>)
    ELSE Ok(<<paths.v>>, << >>)

\* the descriptors of a str path with their paths as [islist, v]
UnChainTagged(c) ==
    IF c.raised THEN c
    ELSE Ok([j \in 1..Len(c.value) |->
                <<AStr(c.value[j][1]), c.value[j][2], c.value[j][3]>>],
            << >>)

\* chain = _un_chain(urlpath, storage_options or {}), its paths as
\* [islist, v]
UnChainAny(urlpath, storage_options) ==
    IF urlpath.islist THEN _un_chain_list(urlpath.v, storage_options)
    ELSE UnChainTagged(_un_chain(urlpath.v, storage_options))

\* the filesystem and the stripped paths, by the branch the chain and the
\* type of urlpath select
ResolveFs(urlpath, storage_options, protocol, chain) ==
    IF chain.raised THEN chain
    ELSE IF Len(chain.value) > 1 THEN ChainedFs(chain.value)
    ELSE IF urlpath.islist
    THEN UnchainedListFs(urlpath.v, storage_options, protocol)
    ELSE UnchainedStrFs(urlpath.v, storage_options, protocol)

\* return fs, fs._fs_token, paths
ReturnPaths(r, paths) ==
    IF paths.raised THEN Raise(paths.error, r.made)
    ELSE Ok(<<r.value[1], r.value[1], paths.value>>, r.made)

\* the expansion of the paths of a resolved filesystem r
ExpandResolved(r, mode, num, expand) ==
    IF r.raised THEN r
    ELSE ReturnPaths(r, FinalPaths(r.value[1], r.value[2], mode, num, expand))

\* get_fs_token_paths(urlpath, mode, num, name_function=None,
\* storage_options, protocol, expand): urlpath is an [islist, v]; the value
\* is (fs, fs._fs_token, paths)
get_fs_token_paths(urlpath, mode, num, storage_options, protocol, expand) ==
    IF urlpath.islist /\ urlpath.v = << >> THEN Raise("ValueError", << >>)
    ELSE ExpandResolved(
             ResolveFs(urlpath, storage_options, protocol,
                       UnChainAny(urlpath, storage_options)),
             mode, num, expand)

(***************************************************************************)
(* The calls of url_to_fs and get_fs_token_paths.                          *)
(***************************************************************************)
\* the longest chain of segments of a URL
MaxSegs == 3

\* the longest list of URLs
MaxList == 2

\* the largest num
MaxNum == 2

S_port ==
    <<"p", "o", "r", "t">>

\* the segments URLs are chained from: two cache protocols by their bare
\* names, URLs of two storage protocols, a local path, a bare word that is
\* no protocol, and a URL with a glob character
Segments ==
    {<<"s", "i", "m", "p", "l", "e", "c", "a", "c", "h", "e">>,
     <<"f", "i", "l", "e", "c", "a", "c", "h", "e">>,
     <<"m", "e", "m", "o", "r", "y", ":", "/", "/", "a">>,
     <<"f", "t", "p", ":", "/", "/", "h", "/", "p">>,
     <<"a", "/", "b">>,
     <<"z", "z">>,
     <<"m", "e", "m", "o", "r", "y", ":", "/", "/", "d", "/", "*">>}

RECURSIVE JoinChain(_)
JoinChain(segs) ==
    IF Len(segs) = 1 THEN segs[1]
    ELSE segs[1] \o ChainSep \o JoinChain(Tail(segs))

SeqsUpTo(S, n) == UNION {[1..k -> S] : k \in 1..n}

ChainUrls == {JoinChain(segs) : segs \in SeqsUpTo(Segments, MaxSegs)}

\* the URLs lists are made of
ListUrls ==
    {<<"m", "e", "m", "o", "r", "y", ":", "/", "/", "a">>,
     <<"m", "e", "m", "o", "r", "y", ":", "/", "/", "b", "/">>,
     <<"f", "t", "p", ":", "/", "/", "h", "/", "p">>,
     <<"f", "t", "p", ":", "/", "/", "g", "/", "p">>,
     <<"s", "i", "m", "p", "l", "e", "c", "a", "c", "h", "e", ":", ":", "m", "e", "m", "o", "r", "y", ":", "/", "/", "a">>,
     <<"s", "i", "m", "p", "l", "e", "c", "a", "c", "h", "e", ":", ":", "m", "e", "m", "o", "r", "y", ":", "/", "/", "b", "/">>,
     <<"s", "i", "m", "p", "l", "e", "c", "a", "c", "h", "e", ":", ":", "f", "t", "p", ":", "/", "/", "h", "/", "p">>,
     <<"s", "i", "m", "p", "l", "e", "c", "a", "c", "h", "e", ":", ":", "f", "t", "p", ":", "/", "/", "g", "/", "p">>,
     <<"f", "i", "l", "e", "c", "a", "c", "h", "e", ":", ":", "m", "e", "m", "o", "r", "y", ":", "/", "/", "a">>,
     <<"m", "e", "m", "o", "r", "y", ":", "/", "/", "d", "/", "*">>,
     <<"a", "/", "b">>}

UrlLists == {<< >>} \cup SeqsUpTo(ListUrls, MaxList)

\* the option bags of the caller: none, a host, and per-protocol options
\* for a chain
OptionBags ==
    {EmptyDict,
     S_host :> <<"x">>,
     S_ftp :> (S_host :> <<"x">>),
     S_ftp :> (S_port :> <<"2">>),
     S_simplecache :> (S_target_protocol :> S_memory)}

S_rb == <<"r", "b">>

S_wb == <<"w", "b">>

UrlToFsCalls ==
    {[fn |-> "url_to_fs", urlpath |-> AStr(u), kwargs |-> k, mode |-> S_rb,
      num |-> 1, protocol |-> NoneStr, expand |-> TRUE] :
         u \in ChainUrls, k \in OptionBags}

UnChainCalls ==
    {[fn |-> "_un_chain", urlpath |-> AStr(u), kwargs |-> k, mode |-> S_rb,
      num |-> 1, protocol |-> NoneStr, expand |-> TRUE] :
         u \in ChainUrls, k \in OptionBags}

\* mode, num and expand: num and expand are read in write mode only
GfpArgs ==
    {[mode |-> S_rb, num |-> 1, expand |-> TRUE]}
        \cup {[mode |-> S_wb, num |-> n, expand |-> e] :
                 n \in 1..MaxNum, e \in BOOLEAN}

GfpCalls(urlpaths, protocols) ==
    {[fn |-> "get_fs_token_paths", urlpath |-> u, kwargs |-> k,
      mode |-> a.mode, num |-> a.num, protocol |-> p,
      expand |-> a.expand] :
         u \in urlpaths, k \in OptionBags, a \in GfpArgs, p \in protocols}

\* the protocol argument for a list: none, or an override
ProtocolArgs == {NoneStr, S_memory}

GetFsTokenPathsStrCalls == GfpCalls({AStr(c) : c \in ChainUrls}, {NoneStr})

GetFsTokenPathsListCalls ==
    GfpCalls({AList(l) : l \in UrlLists}, ProtocolArgs)

Done(r) ==
    [status |-> "done", raised |-> r.raised, error |-> r.error,
     value |-> r.value, made |-> r.made]

ChainInit ==
    /\ OpenFileInit
    /\ \/ call \in UnChainCalls
       \/ call \in UrlToFsCalls
       \/ call \in GetFsTokenPathsStrCalls
       \/ call \in GetFsTokenPathsListCalls
    /\ result = Pending

\* _un_chain(path, kwargs)
UnChainCall ==
    /\ call.fn = "_un_chain"
    /\ result = Pending
    /\ result' = Done(_un_chain(call.urlpath.v, call.kwargs))
    /\ UNCHANGED <<ofvars, call, filesvars, loopvars>>

\* url_to_fs(url, **kwargs)
UrlToFsCall ==
    /\ call.fn = "url_to_fs"
    /\ result = Pending
    /\ result' = Done(url_to_fs(call.urlpath.v, call.kwargs))
    /\ UNCHANGED <<ofvars, call, filesvars, loopvars>>

\* get_fs_token_paths(urlpath, mode, num, storage_options=kwargs, protocol,
\* expand)
GetFsTokenPathsCall ==
    /\ call.fn = "get_fs_token_paths"
    /\ result = Pending
    /\ result' = Done(get_fs_token_paths(call.urlpath, call.mode, call.num,
                          call.kwargs, call.protocol, call.expand))
    /\ UNCHANGED <<ofvars, call, filesvars, loopvars>>

ChainNext ==
    \/ UnChainCall
    \/ UrlToFsCall
    \/ GetFsTokenPathsCall

SpecChain == ChainInit /\ [][ChainNext]_vars


(***************************************************************************)
(* Properties of url_to_fs and get_fs_token_paths, checked under           *)
(* SpecChain.  They speak of the input by its segments: the parts of the   *)
(* URL between "::", each with the protocol it names.                      *)
(***************************************************************************)
ChainDone == call.fn \in {"url_to_fs", "get_fs_token_paths"} /\ result # Pending

\* the protocol segment j of url names
SegProtocol(url, j) ==
    LET sp == split_protocol(chain_bits(url)[j])[1]
    IN  IF sp = NoneStr THEN S_file ELSE sp

NumSegs(url) == Len(Split(url, ChainSep))

AllKnown(url) ==
    \A j \in 1..NumSegs(url) : SegProtocol(url, j) \in known_implementations

\* the options the caller gives for segment j: the bag itself for an
\* unchained URL, the bag's entry for the protocol in a chain
ExplicitOptions(url, kwargs, j) ==
    IF NumSegs(url) = 1 THEN kwargs ELSE DictGet(kwargs, SegProtocol(url, j))

\* the options taken from the URL of segment j
DerivedOptions(url, j) ==
    _get_kwargs_from_urls(SegProtocol(url, j), chain_bits(url)[j])

\* the options of the filesystem depth levels of target_options down
RECURSIVE OptionsAt(_, _)
OptionsAt(options, depth) ==
    IF depth = 0 THEN options
    ELSE OptionsAt(options[S_target_options], depth - 1)

\* C9: a filesystem resolved from a URL string whose segments all name
\* known protocols: for every option that the caller gives for a segment
\* and that the segment's URL gives as well, resolution succeeds and the
\* segment's filesystem options carry the caller's value.
C9_ExplicitOptionWins ==
    (ChainDone /\ ~call.urlpath.islist /\ AllKnown(call.urlpath.v)) =>
        LET url == call.urlpath.v
        IN  \A j \in 1..NumSegs(url) :
              LET explicit == ExplicitOptions(url, call.kwargs, j)
              IN  \A key \in DOMAIN explicit \cap DOMAIN DerivedOptions(url, j) :
                     /\ ~result.raised
                     /\ OptionsAt(result.value[1].options, j - 1)[key]
                          = explicit[key]

\* a segment that is a cache protocol and is given no target_protocol
BareCache(url, kwargs, j) ==
    /\ SegProtocol(url, j) \in CacheProtocols
    /\ S_target_protocol \notin
           DOMAIN ExplicitOptions(url, kwargs, j) \cup DOMAIN DerivedOptions(url, j)

\* the path of the first descriptor of a chain: that of the outermost
\* segment that is not a bare cache, stripped by its own class; None when
\* all segments are bare caches
OuterPath(url, kwargs) ==
    LET own == {j \in 1..NumSegs(url) : ~BareCache(url, kwargs, j)}
    IN  IF own = {} THEN NoneStr
        ELSE _strip_protocol(SegProtocol(url, Min(own)),
                             chain_bits(url)[Min(own)])

\* the paths are returned as they are: no write expansion, no glob
NoExpansion(path) ==
    /\ ~(Contains(call.mode, "w") /\ call.expand)
    /\ ~Contains(path, "*")

Chained(url) == NumSegs(url) >= 2

\* the elements of a list input, stripped by the class cls
StrippedBy(cls, urls) == [i \in 1..Len(urls) |-> _strip_protocol(cls, urls[i])]

\* the outermost filesystem's _strip_protocol applied to the input, for the
\* three things "the original path" of a chained input can be: the whole
\* input, its last segment, its first segment
StripsOfOriginal(cls, url) ==
    {_strip_protocol(cls, url),
     _strip_protocol(cls, Split(url, ChainSep)[NumSegs(url)]),
     _strip_protocol(cls, chain_bits(url)[1])}

\* C10 (as stated): for a chained URL string the returned path is the
\* outermost filesystem's _strip_protocol applied to the original input
\* path; for a list there is one returned path for each element, its
\* stripped form.
C10_StripOfOriginalPath ==
    (ChainDone /\ ~result.raised) =>
        LET fsys == result.value[1]
            u    == call.urlpath.v
        IN  /\ (call.fn = "url_to_fs" /\ Chained(u)) =>
                  result.value[2] \in StripsOfOriginal(fsys.cls, u)
            /\ (call.fn = "get_fs_token_paths" /\ ~call.urlpath.islist
                  /\ Chained(u) /\ NoExpansion(u)) =>
                  /\ Len(result.value[3]) = 1
                  /\ result.value[3][1] \in StripsOfOriginal(fsys.cls, u)
            /\ (call.fn = "get_fs_token_paths" /\ call.urlpath.islist
                  /\ \A i \in 1..Len(u) : NoExpansion(u[i])) =>
                  /\ Len(result.value[3]) = Len(u)
                  /\ \A i \in 1..Len(u) :
                        result.value[3][i] \in StripsOfOriginal(fsys.cls, u[i])

\* C10 (amended): for a chained URL string url_to_fs returns the path of
\* the first descriptor of the chain: the outermost segment's own part,
\* stripped by that segment's class, or, where the outermost segments are
\* cache protocols given no target_protocol, the stripped path of the first
\* segment below them, or None when there is none; get_fs_token_paths
\* returns, when no write expansion or glob applies, the one-element list of
\* the filesystem's _strip_protocol of that path.  For a list of unchained
\* URLs without "*" the returned paths are the elements, each stripped by the
\* class of the list's protocol (the protocol argument when one is given);
\* for a list of chained URLs they are the
\* first-descriptor paths of the elements, stripped by the filesystem, one
\* for each element when these differ and a single one when they are all the
\* same.
C10_ReturnedPath ==
    (ChainDone /\ ~result.raised) =>
        LET fsys == result.value[1]
            u    == call.urlpath.v
            k    == call.kwargs
        IN  /\ (call.fn = "url_to_fs" /\ Chained(u)) =>
                  /\ result.value[2] = OuterPath(u, k)
                  /\ fsys.cls = SegProtocol(u, 1)
            /\ (call.fn = "get_fs_token_paths" /\ ~call.urlpath.islist
                  /\ Chained(u) /\ NoExpansion(OuterPath(u, k))) =>
                  result.value[3]
                      = <<_strip_protocol(SegProtocol(u, 1), OuterPath(u, k))>>
            /\ (call.fn = "get_fs_token_paths" /\ call.urlpath.islist
                  /\ \A i \in 1..Len(u) : ~Chained(u[i]) /\ ~Contains(u[i], "*")) =>
                  result.value[3]
                      = StrippedBy(IF call.protocol = NoneStr
                                   THEN SegProtocol(u[1], 1)
                                   ELSE call.protocol, u)
            /\ (call.fn = "get_fs_token_paths" /\ call.urlpath.islist
                  /\ \A i \in 1..Len(u) : Chained(u[i])) =>
                  LET firsts == [i \in 1..Len(u) |-> OuterPath(u[i], k)]
                  IN  IF Cardinality(Range(firsts)) = 1
                      THEN NoExpansion(firsts[1]) =>
                             result.value[3]
                               = <<_strip_protocol(fsys.cls, firsts[1])>>
                      ELSE (\A i \in 1..Len(u) : ~Contains(firsts[i], "*")) =>
                             result.value[3] = StrippedBy(fsys.cls, firsts)

\* a chain whose outer segment is a bare cache: both functions return the
\* stripped path of the segment below it; and a list of two chained URLs
\* with the same first-descriptor path, answered with one path
C10_Witness ==
    /\ ChainDone
    /\ ~result.raised
    /\ \/ /\ ~call.urlpath.islist
          /\ call.urlpath.v = S_simplecache \o ChainSep \o S_ftp
                                 \o <<":", "/", "/", "h", "/", "p">>
          /\ call.fn = "url_to_fs"
          /\ result.value[2] = <<"h", "/", "p">>
       \/ /\ call.urlpath.islist
          /\ Len(call.urlpath.v) = 2
          /\ call.urlpath.v[1] = call.urlpath.v[2]
          /\ Chained(call.urlpath.v[1])
          /\ call.mode = S_rb
          /\ Len(result.value[3]) = 1

(***************************************************************************)
(* Properties of get_fs_token_paths on lists, checked under SpecChain.     *)
(***************************************************************************)
GfpListDone ==
    /\ call.fn = "get_fs_token_paths"
    /\ call.urlpath.islist
    /\ result # Pending

\* the elements of the list do not all name the same outermost protocol
ProtocolsDiffer(urls) ==
    \E i, j \in 1..Len(urls) : SegProtocol(urls[i], 1) # SegProtocol(urls[j], 1)

\* no segment of url is given an option that its URL gives as well
NoCollision(url, kwargs) ==
    \A j \in 1..NumSegs(url) :
        DOMAIN ExplicitOptions(url, kwargs, j) \cap DOMAIN DerivedOptions(url, j)
            = {}

ElementProtocol(url, j) ==
    IF call.protocol # NoneStr /\ NumSegs(url) = 1 THEN call.protocol
    ELSE SegProtocol(url, j)

\* the merged options of the segments of an element: the caller's options
\* laid over those its URL gives
ElementOptions(url, kwargs) ==
    [j \in 1..NumSegs(url) |->
        ExplicitOptions(url, kwargs, j)
            @@ _get_kwargs_from_urls(ElementProtocol(url, j), chain_bits(url)[j])]

ElementProtocols(url) == [j \in 1..NumSegs(url) |-> ElementProtocol(url, j)]

\* all the elements of the list have the same number of chain segments
SameShape(urls) == \A i, j \in 1..Len(urls) : NumSegs(urls[i]) = NumSegs(urls[j])

\* C12: a list (all chained alike, or all unchained) whose elements yield
\* different merged filesystem options makes get_fs_token_paths fail;
\* whenever it returns, all the elements resolved to the same protocols and
\* the same merged options.
C12_DifferentOptionsFail ==
    (GfpListDone /\ SameShape(call.urlpath.v)) =>
        LET u == call.urlpath.v
            k == call.kwargs
        IN  /\ (\E i, j \in 1..Len(u) :
                   ElementOptions(u[i], k) # ElementOptions(u[j], k)) =>
                  result.raised
            /\ ~result.raised =>
                  \A i, j \in 1..Len(u) :
                     /\ ElementProtocols(u[i]) = ElementProtocols(u[j])
                     /\ ElementOptions(u[i], k) = ElementOptions(u[j], k)

(***************************************************************************)
(* Calls of _expand_paths and expand_paths_if_needed                       *)
(***************************************************************************)
MaxExpandNum == 11

MaxExpandList == 2

\* path templates: one mask, a mask after a directory, two masks, none
Templates ==
    {<<"p", "*", ".", "c">>, <<"d", "/", "*">>, <<"q", "*", "*">>,
     <<"b", "*">>, <<"a">>}

\* _expand_paths(path, None, num), num >= 1
ExpandPathsCalls ==
    {[fn |-> "_expand_paths", urlpath |-> t, num |-> n] :
         t \in Templates, n \in 1..MaxExpandNum}

\* expand_paths_if_needed(paths, mode, num, fs, None)
ExpandIfNeededCalls ==
    {[fn |-> "expand_paths_if_needed", paths |-> l, mode |-> mo, num |-> n] :
         l \in SeqsUpTo(Templates, MaxExpandList), mo \in {S_rb, S_wb},
         n \in 0..MaxExpandNum}

ExpandInit ==
    /\ OpenFileInit
    /\ \/ call \in ExpandPathsCalls
       \/ call \in ExpandIfNeededCalls
    /\ result = Pending

ExpandPathsCall ==
    /\ call.fn = "_expand_paths"
    /\ result = Pending
    /\ result' = Done(_expand_paths(call.urlpath, call.num))
    /\ UNCHANGED <<ofvars, call, filesvars, loopvars>>

ExpandIfNeededCall ==
    /\ call.fn = "expand_paths_if_needed"
    /\ result = Pending
    /\ result' = Done(expand_paths_if_needed(call.paths, call.mode, call.num,
                          filesystem(S_memory, EmptyDict)))
    /\ UNCHANGED <<ofvars, call, filesvars, loopvars>>

ExpandNext ==
    \/ ExpandPathsCall
    \/ ExpandIfNeededCall

SpecExpand == ExpandInit /\ [][ExpandNext]_vars

\* a write-mode expansion of a single template with exactly one mask has
\* returned: the template and the number of files asked for
OneMask(t) == count(t, "*") = 1

ExpandedOne ==
    /\ result # Pending
    /\ \/ call.fn = "_expand_paths" /\ OneMask(call.urlpath)
       \/ /\ call.fn = "expand_paths_if_needed"
          /\ Contains(call.mode, "w")
          /\ Len(call.paths) = 1
          /\ OneMask(call.paths[1])

Template == IF call.fn = "_expand_paths" THEN call.urlpath ELSE call.paths[1]

\* the decimal digits of i, padded with zeros on the left to width w
Digit(d) == CASE d = 0 -> "0" [] d = 1 -> "1" [] d = 2 -> "2" [] d = 3 -> "3"
              [] d = 4 -> "4" [] d = 5 -> "5" [] d = 6 -> "6" [] d = 7 -> "7"
              [] d = 8 -> "8" [] d = 9 -> "9"

Pow10(w) == IF w = 0 THEN 1 ELSE IF w = 1 THEN 10 ELSE IF w = 2 THEN 100 ELSE 1000

Padded(i, w) == [k \in 1..w |-> Digit((i \div Pow10(w - k)) % 10)]

Width(n) == IF n <= 10 THEN 1 ELSE IF n <= 100 THEN 2 ELSE 3

\* the template with its mask replaced by t
Filled(tmpl, t) ==
    LET k == CHOOSE i \in 1..Len(tmpl) : tmpl[i] = "*"
    IN  SubSeq(tmpl, 1, k - 1) \o t \o SubSeq(tmpl, k + 1, Len(tmpl))

ExpansionOf(tmpl, n, v) ==
    /\ Len(v) = n
    /\ \A i \in 1..n : v[i] = Filled(tmpl, Padded(i - 1, Width(n)))
    /\ \A i \in 1..n : ~Contains(v[i], "*")
    /\ \A i, j \in 1..n : i # j => v[i] # v[j]

\* C13 as stated: in write mode a template with exactly one '*', num = n and
\* the default name function expands to exactly n paths, pairwise distinct,
\* in index order, each the template with '*' replaced by the zero-padded
\* index, none containing '*'; for every n.
C13_ExactlyNumPaths ==
    ExpandedOne =>
        ~result.raised /\ ExpansionOf(Template, call.num, result.value)

\* C13 for n >= 1: the same, and what num = 0 gives instead:
\* expand_paths_if_needed raises num to the number of input paths and
\* returns one path.
C13_NumPaths ==
    ExpandedOne =>
        /\ ~result.raised
        /\ call.num >= 1 => ExpansionOf(Template, call.num, result.value)
        /\ call.num = 0 => ExpansionOf(Template, 1, result.value)

\* eleven paths, the index padded to two digits
C13_Witness ==
    /\ ExpandedOne
    /\ call.num = 11
    /\ Template = <<"p", "*", ".", "c">>
    /\ ~result.raised
    /\ result.value[1] = <<"p", "0", "0", ".", "c">>
    /\ result.value[11] = <<"p", "1", "0", ".", "c">>

\* a write-mode expansion has ended: the paths given to it
ExpandedForWrite ==
    /\ result # Pending
    /\ \/ call.fn = "_expand_paths"
       \/ call.fn = "expand_paths_if_needed" /\ Contains(call.mode, "w")

InputPaths == IF call.fn = "_expand_paths" THEN <<call.urlpath>> ELSE call.paths

\* the number of '*' in the first k paths
RECURSIVE Stars(_, _)
Stars(paths, k) ==
    IF k = 0 THEN 0 ELSE Stars(paths, k - 1) + count(paths[k], "*")

\* C14: in write mode the expansion fails with ValueError, returning no
\* paths, whenever '*' occurs more than once in the whole input: in more
\* than one path of the list, or twice or more in one template.
C14_OneMaskOnly ==
    (ExpandedForWrite /\ Stars(InputPaths, Len(InputPaths)) > 1) =>
        result.raised /\ result.error = "ValueError" /\ result.value = None

\* two templates in one write batch
C14_Witness ==
    /\ ExpandedForWrite
    /\ call.fn = "expand_paths_if_needed"
    /\ call.paths = <<(<<"p", "*", ".", "c">>), (<<"b", "*">>)>>
    /\ call.num = 2
    /\ result.raised
    /\ result.error = "ValueError"

(***************************************************************************)
(* OpenFiles: a list of OpenFile with a mode and a filesystem.             *)
(*                                                                         *)
(* A filesystem handle is [layers, local_file]: layers[1] is the handle    *)
(* itself, layers[i + 1] the one that layers[i] wraps as its attribute fs; *)
(* a layer is TRUE if it has open_many (and commit_many).  trace holds the *)
(* calls the last operation made on the filesystem and on the members, as  *)
(* [op, i, path]: i is the member (from 1) or 0.                           *)
(***************************************************************************)
MaxFiles == 2

MaxEntries == 1

Called(op, i, path) == [op |-> op, i |-> i, path |-> path]

\* fs = None, the default of OpenFiles
NoFs == [layers |-> << >>, local_file |-> FALSE]

\* the filesystem handles: plain, with open_many, wrapping one with or
\* without open_many; each with or without local_file = True
FsHandles ==
    [layers : {<<FALSE>>, <<TRUE>>, <<FALSE, TRUE>>, <<FALSE, FALSE>>},
     local_file : BOOLEAN]

\* OpenFiles.__init__(*args, mode, fs)
OpenFiles__init__(args, mode, fsys) ==
    [status |-> "live", mode |-> mode, fs |-> fsys, files |-> << >>,
     items |-> args, out |-> << >>, entries |-> 0]

\* the loops of __enter__ and __exit__ over fs, fs.fs, ...: the first layer
\* with open_many, 0 if there is none
RECURSIVE FindOpenMany(_, _)
FindOpenMany(layers, i) ==
    IF i > Len(layers) THEN 0
    ELSE IF layers[i] THEN i
    ELSE FindOpenMany(layers, i + 1)

\* fs.open_many(open_files) of a caching filesystem: one stream for each
\* member, in the order of the members
open_many(h, n) ==
    [heap |-> h \o [k \in 1..n |-> Layer("raw", 0, FALSE)],
     files |-> [k \in 1..n |-> Len(h) + k]]

\* [s.__enter__() for s in self]: r = [items, fs, heap, out, raised, error,
\* trace]; the member failat.k fails at the step failat.step
RECURSIVE EnterEach(_, _, _)
EnterStep(r, k, e) ==
    [r EXCEPT !.items[k] = e.self, !.fs = e.fs, !.heap = e.heap,
              !.out = IF e.raised THEN @ ELSE Append(@, e.f),
              !.raised = e.raised, !.error = e.error,
              !.trace = Append(@, Called("enter", k, r.items[k].path))]

\* variant: the members after a failing one are entered as well
RECURSIVE EnterEach_all(_, _, _)
EnterEach_all(r, k, failat) ==
    IF k > Len(r.items) THEN r
    ELSE EnterEach_all(EnterStep(r, k,
                           __enter__(r.items[k], r.fs, r.heap,
                                     IF failat.k = k THEN failat.step
                                     ELSE "none")),
                       k + 1, failat)

EnterEach(r, k, failat) ==
    IF k > Len(r.items) \/ r.raised THEN r
    ELSE EnterEach(EnterStep(r, k,
                       __enter__(r.items[k], r.fs, r.heap,
                                 IF failat.k = k THEN failat.step ELSE "none")),
                   k + 1, failat)

\* variant: open_many is looked for on self.fs alone, not on what it wraps
OpenFiles__enter__shallow(self, fsv, h, failat) ==
    IF self.fs = NoFs
    THEN [self |-> self, fs |-> fsv, heap |-> h, trace |-> << >>,
          out |-> << >>, raised |-> TRUE, error |-> "ValueError"]
    ELSE IF self.fs.layers[1]
    THEN LET m == open_many(h, Len(self.items))
         IN  [self |-> [self EXCEPT !.files = m.files], fs |-> fsv,
              heap |-> m.heap,
              trace |-> <<Called("open_many", 1, << >>)>>,
              out |-> m.files, raised |-> FALSE, error |-> None]
    ELSE LET r == EnterEach([items |-> self.items, fs |-> fsv, heap |-> h,
                             out |-> << >>, raised |-> FALSE, error |-> None,
                             trace |-> << >>], 1, failat)
         IN  [self |-> [self EXCEPT !.items = r.items], fs |-> r.fs,
              heap |-> r.heap, trace |-> r.trace, out |-> r.out,
              raised |-> r.raised, error |-> r.error]

\* OpenFiles.__enter__(self): the result's self, fs, heap, trace are the
\* state after it, out the list it returns
OpenFiles__enter__(self, fsv, h, failat) ==
    IF self.fs = NoFs
    THEN [self |-> self, fs |-> fsv, heap |-> h, trace |-> << >>,
          out |-> << >>, raised |-> TRUE, error |-> "ValueError"]
    ELSE IF FindOpenMany(self.fs.layers, 1) # 0
    THEN LET m == open_many(h, Len(self.items))
         IN  [self |-> [self EXCEPT !.files = m.files], fs |-> fsv,
              heap |-> m.heap,
              trace |-> <<Called("open_many",
                                 FindOpenMany(self.fs.layers, 1), << >>)>>,
              out |-> m.files, raised |-> FALSE, error |-> None]
    ELSE LET r == EnterEach([items |-> self.items, fs |-> fsv, heap |-> h,
                             out |-> << >>, raised |-> FALSE, error |-> None,
                             trace |-> << >>], 1, failat)
         IN  [self |-> [self EXCEPT !.items = r.items], fs |-> r.fs,
              heap |-> r.heap, trace |-> r.trace, out |-> r.out,
              raised |-> r.raised, error |-> r.error]

\* fs.commit_many(open_files) of a caching filesystem: the streams are
\* uploaded together and each is closed
RECURSIVE commit_many(_, _, _)
commit_many(st, files, fault) ==
    IF files = << >> \/ st.raised THEN st
    ELSE commit_many(FClose(st, Head(files), fault), Tail(files), fault)

\* [s.__exit__(*args) for s in self]: each is s.close(), which is
\* _close(s.fobjects, s.mode); r = [items, st, raised, trace]
RECURSIVE ExitEach(_, _, _)
ExitStep(r, k, c) ==
    [r EXCEPT !.items[k].fobjects = c.list, !.st = c.st,
              !.trace = Append(@, Called("exit", k, r.items[k].path))]

ExitEach(r, k, fault) ==
    IF k > Len(r.items) \/ r.st.raised THEN r
    ELSE ExitEach(ExitStep(r, k, _close(r.st, r.items[k].fobjects,
                                        r.items[k].mode, fault)),
                  k + 1, fault)

\* variant: the batch capability is looked for on self.fs alone
OpenFiles__exit__shallow(self, st, fault) ==
    IF ~Contains(self.mode, "r") /\ self.fs # NoFs /\ self.fs.layers[1]
    THEN LET c == commit_many(st, self.files, fault)
         IN  [self |-> IF c.raised THEN self ELSE [self EXCEPT !.files = << >>],
              st |-> c,
              trace |-> <<Called("commit_many", 1, << >>)>>]
    ELSE LET r == ExitEach([items |-> self.items, st |-> st, trace |-> << >>],
                           1, fault)
         IN  [self |-> [self EXCEPT !.items = r.items], st |-> r.st,
              trace |-> r.trace]

\* OpenFiles.__exit__(self, *args)
OpenFiles__exit__(self, st, fault) ==
    IF ~Contains(self.mode, "r") /\ FindOpenMany(self.fs.layers, 1) # 0
    THEN LET c == commit_many(st, self.files, fault)
         IN  [self |-> IF c.raised THEN self ELSE [self EXCEPT !.files = << >>],
              st |-> c,
              trace |-> <<Called("commit_many",
                                 FindOpenMany(self.fs.layers, 1), << >>)>>]
    ELSE LET r == ExitEach([items |-> self.items, st |-> st, trace |-> << >>],
                           1, fault)
         IN  [self |-> [self EXCEPT !.items = r.items], st |-> r.st,
              trace |-> r.trace]

(***************************************************************************)
(* The operations on an OpenFiles collection                               *)
(***************************************************************************)
\* the path of member k
MemberPath(k) == <<"d", "/">> \o str(k)

\* the members: OpenFile(fs, path, mode) for each path
Members(n, mode) ==
    [k \in 1..n |->
        OpenFile__init__([fs |-> "fs", path |-> MemberPath(k), mode |-> mode,
                          compression |-> None, encoding |-> "utf8",
                          errors |-> None, newline |-> None]).self]

\* OpenFiles(*members, mode=mode, fs=fs)
FilesConstruct ==
    /\ call = NoCall
    /\ openfiles.status = "none"
    /\ \E n \in 1..MaxFiles, mode \in Modes, fsys \in FsHandles \cup {NoFs} :
          openfiles' = OpenFiles__init__(Members(n, mode), mode, fsys)
    /\ trace' = << >>
    /\ ev' = [NoEvent EXCEPT !.op = "files_init"]
    /\ UNCHANGED <<wrapper, heap, streams, fs, call, result, loopvars>>

\* the failures of the backend while the members are entered: none, or one
\* member failing at one step
EntryFaults(n) ==
    {[k |-> 0, step |-> "none"]} \cup [k : 1..n, step : {"open", "text"}]

\* with openfiles as files: ...   (entry)
FilesEnter ==
    /\ openfiles.status = "live"
    /\ openfiles.entries < MaxEntries
    /\ \E failat \in EntryFaults(Len(openfiles.items)) :
          \E r \in {OpenFiles__enter__(openfiles, fs, heap, failat)} :
             /\ openfiles' = [r.self EXCEPT !.out = r.out,
                                            !.entries = @ + 1]
             /\ fs' = r.fs
             /\ heap' = r.heap
             /\ trace' = r.trace
             /\ ev' = [NoEvent EXCEPT !.op = "files_enter",
                                      !.raised = r.raised,
                                      !.error = r.error]
    /\ UNCHANGED <<wrapper, streams, call, result, loopvars>>

\* the layers the members track and the streams stored at entry
FilesLayers ==
    Range(openfiles.files) \cup
    UNION {Range(openfiles.items[k].fobjects) : k \in 1..Len(openfiles.items)}

\* openfiles.__exit__(*args)   (the end of the with block)
FilesExit ==
    /\ openfiles.status = "live"
    /\ \E fault \in Faults(FilesLayers, openfiles.mode) :
          \E r \in {OpenFiles__exit__(openfiles, CloseState, fault)} :
             /\ openfiles' = r.self
             /\ heap' = r.st.heap
             /\ trace' = r.trace
             /\ ev' = [NoEvent EXCEPT !.op = "files_exit",
                                      !.raised = r.st.raised,
                                      !.error = IF r.st.raised THEN "OSError"
                                                ELSE None,
                                      !.calls = r.st.calls,
                                      !.flushed = r.st.flushed]
    /\ UNCHANGED <<wrapper, streams, fs, call, result, loopvars>>

(***************************************************************************)
(* open_files and open_local                                               *)
(***************************************************************************)
\* the capabilities of a filesystem of class cls: the caches that hold
\* whole files have open_many and local_file = True and wrap their target
\* as fs; the local filesystem has local_file = True
Handle(fsys) ==
    IF fsys.cls \in {S_simplecache, S_filecache}
    THEN [layers |-> <<TRUE, FALSE>>, local_file |-> TRUE]
    ELSE [layers |-> <<FALSE>>, local_file |-> fsys.cls = S_file]

\* fs._parent(path): what precedes the last "/", the root if there is none
_parent(fsys, path) ==
    IF Contains(path, "/") THEN SubSeq(path, 1, LastIndex(path, "/") - 1)
    ELSE << >>

\* the orders in which a set can be iterated
Orderings(S) == {p \in [1..Cardinality(S) -> S] : Range(p) = S}

\* [OpenFile(fs, path, mode=mode, ...) for path in paths]
OpenFileEach(paths, mode) ==
    [k \in 1..Len(paths) |->
        OpenFile__init__([fs |-> "fs", path |-> paths[k], mode |-> mode,
                          compression |-> None, encoding |-> "utf8",
                          errors |-> None, newline |-> None]).self]

\* variant: the directories are made whatever the mode
OpenFilesOf_anymode(g, mode, auto_mkdir, parents) ==
    [raised |-> FALSE, error |-> None,
     of |-> OpenFiles__init__(OpenFileEach(g.value[3], mode), mode,
                              Handle(g.value[1])),
     trace |-> IF auto_mkdir
               THEN [i \in 1..Len(parents) |->
                        Called("makedirs", 0, parents[i])]
               ELSE << >>]

\* the part of open_files after get_fs_token_paths returned g: parents is
\* the set of parents in the order it is iterated
OpenFilesOf(g, mode, auto_mkdir, parents) ==
    [raised |-> FALSE, error |-> None,
     of |-> OpenFiles__init__(OpenFileEach(g.value[3], mode), mode,
                              Handle(g.value[1])),
     trace |-> IF ~Contains(mode, "r") /\ auto_mkdir
               THEN [i \in 1..Len(parents) |->
                        Called("makedirs", 0, parents[i])]
               ELSE << >>]

\* open_files(urlpath, mode, num=num, auto_mkdir=auto_mkdir, expand=expand,
\* **kwargs), given what get_fs_token_paths returned
open_files(g, mode, auto_mkdir, parents) ==
    IF g.raised
    THEN [raised |-> TRUE, error |-> g.error, of |-> NoFile, trace |-> << >>]
    ELSE OpenFilesOf(g, mode, auto_mkdir, parents)

\* the parents of the paths get_fs_token_paths returned
Parents(g) ==
    IF g.raised THEN {}
    ELSE {_parent(g.value[1], g.value[3][k]) : k \in 1..Len(g.value[3])}

\* the URLs open_files and open_local are called with
FilesUrls ==
    {<<"a", "/", "b">>,
     <<"m", "e", "m", "o", "r", "y", ":", "/", "/", "a">>,
     <<"m", "e", "m", "o", "r", "y", ":", "/", "/", "d", "/", "*">>,
     <<"m", "e", "m", "o", "r", "y", ":", "/", "/", "e", "*">>,
     <<"d", "/", "*">>,
     <<"s", "i", "m", "p", "l", "e", "c", "a", "c", "h", "e", ":", ":",
       "m", "e", "m", "o", "r", "y", ":", "/", "/", "d", "/", "x">>,
     <<"z", "z", ":", "/", "/", "a">>}

FilesUrlLists ==
    {<<(<<"m", "e", "m", "o", "r", "y", ":", "/", "/", "d", "/", "x">>),
       (<<"m", "e", "m", "o", "r", "y", ":", "/", "/", "d", "/", "y">>)>>,
     <<(<<"m", "e", "m", "o", "r", "y", ":", "/", "/", "d", "/", "x">>),
       (<<"m", "e", "m", "o", "r", "y", ":", "/", "/", "c", "/", "y">>)>>,
     <<(<<"d", "/", "x">>), (<<"y">>)>>}

OpenFilesCalls(urlpaths) ==
    {[fn |-> "open_files", urlpath |-> u, mode |-> mo, num |-> n,
      auto_mkdir |-> a, kwargs |-> EmptyDict] :
         u \in urlpaths, mo \in {S_rb, S_wb}, n \in 1..MaxNum, a \in BOOLEAN}

OpenFilesStrCalls == OpenFilesCalls({AStr(u) : u \in FilesUrls})

OpenFilesListCalls == OpenFilesCalls({AList(l) : l \in FilesUrlLists})

\* what a call that set up or used a collection leaves behind
Outcome(r, value) ==
    [status |-> "done", raised |-> r.raised, error |-> r.error,
     value |-> value, made |-> << >>]

\* of = open_files(urlpath, mode, num=num, auto_mkdir=auto_mkdir)
OpenFilesCall ==
    /\ call.fn = "open_files"
    /\ result = Pending
    /\ \E g \in {get_fs_token_paths(call.urlpath, call.mode, call.num,
                                     call.kwargs, NoneStr, TRUE)} :
          \E parents \in Orderings(Parents(g)) :
             \E r \in {open_files(g, call.mode, call.auto_mkdir, parents)} :
                /\ openfiles' = r.of
                /\ trace' = r.trace
                /\ result' = Outcome(r, None)
                /\ ev' = [NoEvent EXCEPT !.op = "open_files",
                                         !.raised = r.raised,
                                         !.error = r.error]
    /\ UNCHANGED <<wrapper, heap, streams, fs, call, loopvars>>

\* has_magic(url): the URL holds one of the glob characters
has_magic(url) == \E c \in {"*", "?", "["} : Contains(url, c)

\* [f.name for f in files]: the local path of each stream, known by the
\* path of its member
Names(of) == [k \in 1..Len(of.items) |-> of.items[k].path]

NoEffect(r, h, fsv) ==
    [raised |-> r.raised, error |-> r.error, value |-> None, of |-> r.of,
     heap |-> h, fs |-> fsv, trace |-> r.trace]

\* the end of the with block of open_local, e what the entry gave, and the
\* return
OpenLocalExit(url, e, x) ==
    [raised |-> FALSE, error |-> None,
     value |-> IF ~url.islist /\ ~has_magic(url.v)
               THEN AStr(Names(e.self)[1])
               ELSE AList(Names(e.self)),
     of |-> x.self, heap |-> x.st.heap, fs |-> e.fs,
     trace |-> e.trace \o x.trace]

\* with of as files: paths = [f.name for f in files]
OpenLocalWith(url, e, st) ==
    OpenLocalExit(url, e,
        OpenFiles__exit__([e.self EXCEPT !.out = e.out, !.entries = @ + 1],
                          [st EXCEPT !.heap = e.heap], NoFault))

\* open_local after open_files returned o
OpenLocalOf(url, o, fsv, h, st) ==
    IF o.raised THEN NoEffect(o, h, fsv)
    ELSE IF o.of.items = << >>
    THEN NoEffect([o EXCEPT !.raised = TRUE, !.error = "IndexError"], h, fsv)
    ELSE IF ~o.of.fs.local_file
    THEN NoEffect([o EXCEPT !.raised = TRUE, !.error = "ValueError"], h, fsv)
    ELSE OpenLocalWith(url, OpenFiles__enter__(o.of, fsv, h,
                                               [k |-> 0, step |-> "none"]),
                       st)

\* open_local(url, mode, **storage_options)
open_local(url, mode, storage_options, fsv, h, st) ==
    IF ~Contains(mode, "r")
    THEN [raised |-> TRUE, error |-> "ValueError", value |-> None,
          of |-> NoFile, heap |-> h, fs |-> fsv, trace |-> << >>]
    ELSE OpenLocalOf(url,
             open_files(get_fs_token_paths(url, mode, 1, storage_options,
                                           NoneStr, TRUE),
                        mode, TRUE, << >>),
             fsv, h, st)

OpenLocalCalls(urls) ==
    {[fn |-> "open_local", urlpath |-> u, mode |-> mo, kwargs |-> EmptyDict] :
         u \in urls, mo \in {S_rb, S_wb}}

OpenLocalStrCalls == OpenLocalCalls({AStr(u) : u \in FilesUrls})

OpenLocalListCalls == OpenLocalCalls({AList(l) : l \in FilesUrlLists})

\* open_local(url, mode)
OpenLocalCall ==
    /\ call.fn = "open_local"
    /\ result = Pending
    /\ \E r \in {open_local(call.urlpath, call.mode, call.kwargs, fs, heap,
                             CloseState)} :
          /\ openfiles' = r.of
          /\ heap' = r.heap
          /\ fs' = r.fs
          /\ trace' = r.trace
          /\ result' = Outcome(r, r.value)
          /\ ev' = [NoEvent EXCEPT !.op = "open_local",
                                   !.raised = r.raised, !.error = r.error]
    /\ UNCHANGED <<wrapper, streams, call, loopvars>>

FilesInit ==
    /\ OpenFileInit
    /\ \/ call = NoCall
       \/ call \in OpenFilesStrCalls
       \/ call \in OpenFilesListCalls
       \/ call \in OpenLocalStrCalls
       \/ call \in OpenLocalListCalls
    /\ result = Pending

FilesNext ==
    \/ FilesConstruct
    \/ OpenFilesCall
    \/ OpenLocalCall
    \/ FilesEnter
    \/ FilesExit

SpecFiles == FilesInit /\ [][FilesNext]_vars

\* C15: after the __exit__ of an OpenFiles collection has run, every stream
\* that its __enter__ opened or obtained, from the members' own entry or
\* from open_many, is closed, in read mode and in write mode.
C15_ExitClosesEveryStream ==
    (ev.op = "files_exit" /\ ~ev.raised) =>
        \A f \in 1..Len(heap) : heap[f].closed

\* open_files has returned a collection
OpenFilesDone == ev.op = "open_files" /\ ~ev.raised

\* the distinct parents of the paths of the members
MemberParents ==
    {_parent(openfiles.fs, openfiles.items[k].path) :
        k \in 1..Len(openfiles.items)}

\* C17: open_files in a mode without 'r' and with auto_mkdir true has called
\* makedirs once for each distinct parent of the resolved paths when it
\* returns the collection, and no member has been opened by then; in a read
\* mode, or with auto_mkdir false, it has called makedirs not at all.
C17_MakedirsOncePerParent ==
    OpenFilesDone =>
        /\ heap = << >>
        /\ fs.opens = 0
        /\ \A i \in 1..Len(trace) : trace[i].op = "makedirs"
        /\ IF ~Contains(call.mode, "r") /\ call.auto_mkdir
           THEN /\ {trace[i].path : i \in 1..Len(trace)} = MemberParents
                /\ Len(trace) = Cardinality(MemberParents)
           ELSE trace = << >>

\* two paths under two directories, opened for writing
C17_Witness ==
    /\ OpenFilesDone
    /\ call.mode = S_wb
    /\ call.auto_mkdir
    /\ Len(openfiles.items) = 2
    /\ Len(trace) = 2
    /\ trace[1].path # trace[2].path

OpenLocalDone == ev.op = "open_local"

\* C16: open_local returns local path(s) only for a read mode and only when
\* the resolved filesystem declares local_file = True; with a mode without
\* 'r', or a filesystem without that attribute, it fails with a ValueError
\* and no file has been opened.
C16_LocalOnlyForReading ==
    OpenLocalDone =>
        /\ ~result.raised =>
              /\ Contains(call.mode, "r")
              /\ openfiles.status = "live"
              /\ openfiles.fs.local_file
        /\ (\/ ~Contains(call.mode, "r")
            \/ openfiles.status = "live" /\ ~openfiles.fs.local_file) =>
              /\ result.raised
              /\ result.error = "ValueError"
              /\ heap = << >>
              /\ fs.opens = 0

\* the rebound close() of a stream that open() returned has run to its end
ReboundClosed == ev.op = "sclose" /\ ~ev.raised

\* C18 as stated: after the stream returned by OpenFile.open() was closed
\* through its rebound close(), the wrapper's own list of tracked layers is
\* empty.
C18_OwnListEmptied == ReboundClosed => wrapper.fobjects = << >>

\* C18, amended: the rebound close() closes every layer that open() created
\* and empties the list the closure captured (a copy); it leaves the
\* wrapper and its own list of tracked layers as they were.
C18_CapturedListEmptied ==
    [][(ev'.op = "sclose" /\ ~ev'.raised) =>
          /\ wrapper' = wrapper
          /\ streams'[ev'.ret].fobjects = << >>
          /\ \A f \in Range(streams'[ev'.ret].opened) : heap'[f].closed]_vars

\* the stream is closed and the wrapper still tracks the layers of that
\* open(), all closed
C18_Witness ==
    /\ ReboundClosed
    /\ wrapper.status = "live"
    /\ Len(wrapper.fobjects) >= 2
    /\ wrapper.fobjects = streams[ev.ret].opened
    /\ streams[ev.ret].fobjects = << >>
    /\ \A f \in Range(wrapper.fobjects) : heap[f].closed

\* close() or __exit__ of the wrapper has run to its end
WrapperClosed == ev.op \in {"close", "exit"} /\ ~ev.raised

\* C19 as stated: when the layers of an OpenFile are closed, flush is called
\* only on text layers (layers of a mode without "b"); binary layers are
\* closed without a flush.
C19_FlushOnlyText ==
    WrapperClosed =>
        \A f \in Range(ev.flushed) :
           heap[f].kind = "text" \/ ~Contains(wrapper.mode, "b")

\* the layer at position i of the list is closed by the close of a layer
\* above it that closes the stream it wraps
ClosedFromAbove(h, list, i) ==
    \E j \in (i + 1)..Len(list) : h[list[j]].casc /\ h[list[j]].inner = list[i]

\* C19, amended: flush depends on the mode, not on the kind of layer: in a
\* mode with "r" no layer is flushed; in a mode without "r" every tracked
\* layer, binary or text, that is still open when its turn comes is flushed,
\* and the others are closed without a flush.
C19_FlushUnlessReading ==
    [][(ev'.op \in {"close", "exit"} /\ ~ev'.raised) =>
          IF Contains(wrapper.mode, "r") THEN ev'.flushed = << >>
          ELSE \A i \in 1..Len(wrapper.fobjects) :
                  (wrapper.fobjects[i] \in Range(ev'.flushed)) <=>
                      /\ ~heap[wrapper.fobjects[i]].closed
                      /\ ~ClosedFromAbove(heap, wrapper.fobjects, i)]_vars

\* a binary write: the raw (binary) layer was flushed, then closed
C19_Witness ==
    /\ WrapperClosed
    /\ wrapper.mode = <<"w", "b">>
    /\ ev.before # << >>
    /\ heap[ev.before[1]].kind = "raw"
    /\ ev.before[1] \in Range(ev.flushed)
    /\ ev.before[1] \in Range(ev.calls)

\* _un_chain has ended on a chain of two segments or more
UnChainDone ==
    /\ call.fn = "_un_chain"
    /\ result # Pending
    /\ NumSegs(call.urlpath.v) >= 2

\* the part of the input after the last "::"
Trailing(url) == Split(url, ChainSep)[NumSegs(url)]

\* C20 as stated: for a chain string of n >= 2 segments _un_chain returns
\* exactly n descriptors in the order of the input, and the path of the
\* last descriptor equals the trailing component of the input (taken as it
\* is written, as completed to a URL, or as stripped by its class).
C20_LastPathIsTrailing ==
    (UnChainDone /\ ~result.raised) =>
        LET url == call.urlpath.v
            n   == NumSegs(url)
        IN  /\ Len(result.value) = n
            /\ \A j \in 1..n : result.value[j][2] = SegProtocol(url, j)
            /\ result.value[n][1] \in
                   {Trailing(url), chain_bits(url)[n],
                    _strip_protocol(SegProtocol(url, n), chain_bits(url)[n])}

\* C20, amended: _un_chain returns if and only if every segment names a
\* registered protocol and no option of a segment is given both by its URL
\* and by the caller; it then returns exactly n descriptors in the order of
\* the input, and the path of the last one is the trailing component
\* stripped by its class, or None when the trailing segment is a cache
\* protocol without a target_protocol option.
C20_Descriptors ==
    UnChainDone =>
        LET url == call.urlpath.v
            n   == NumSegs(url)
        IN  /\ ~result.raised <=>
                   AllKnown(url) /\ NoCollision(url, call.kwargs)
            /\ ~result.raised =>
                  /\ Len(result.value) = n
                  /\ \A j \in 1..n : result.value[j][2] = SegProtocol(url, j)
                  /\ result.value[n][1] =
                        IF BareCache(url, call.kwargs, n) THEN NoneStr
                        ELSE _strip_protocol(SegProtocol(url, n),
                                             chain_bits(url)[n])

\* a cache over an ftp URL: two descriptors, the last with the stripped path
C20_Witness ==
    /\ UnChainDone
    /\ ~result.raised
    /\ NumSegs(call.urlpath.v) = 2
    /\ SegProtocol(call.urlpath.v, 1) = S_simplecache
    /\ SegProtocol(call.urlpath.v, 2) = S_ftp
    /\ Len(result.value) = 2
    /\ result.value[2][1] # Trailing(call.urlpath.v)

(***************************************************************************)
(* The options of a chained filesystem, checked under SpecChain.           *)
(***************************************************************************)
\* a chained URL string has been resolved to a filesystem
ChainResolved ==
    /\ ChainDone
    /\ ~call.urlpath.islist
    /\ Chained(call.urlpath.v)
    /\ ~result.raised

\* what a chain's options are made of, for the bit of one segment: its
\* protocol, its own options (those its URL gives and those the caller
\* gives for its protocol), whether it is a cache given no target_protocol,
\* and its stripped path
SegmentOf(bit, kwargs) ==
    LET sp       == split_protocol(bit)[1]
        protocol == IF sp = NoneStr THEN S_file ELSE sp
        own      == DictGet(kwargs, protocol)
                        @@ _get_kwargs_from_urls(protocol, bit)
    IN  [protocol |-> protocol,
         own      |-> own,
         bare     |-> protocol \in CacheProtocols
                         /\ S_target_protocol \notin DOMAIN own,
         path     |-> _strip_protocol(protocol, bit)]

RECURSIVE SegmentsOf(_, _)
SegmentsOf(bits, kwargs) ==
    IF bits = << >> THEN << >>
    ELSE <<SegmentOf(Head(bits), kwargs)>> \o SegmentsOf(Tail(bits), kwargs)

\* the path of the descriptor of segment j: that of the first segment from
\* j on that is not a bare cache, None when there is none
RECURSIVE PathFrom(_, _)
PathFrom(segs, j) ==
    IF j > Len(segs) THEN NoneStr
    ELSE IF segs[j].bare THEN PathFrom(segs, j + 1)
    ELSE segs[j].path

\* options are those of segment j of the chain: its own options and, when
\* it is not the last segment, target_protocol, target_options and fo of the
\* next segment, target_options being that segment's options in turn
RECURSIVE NestedAs(_, _, _)
NestedAs(options, segs, j) ==
    /\ \A key \in DOMAIN segs[j].own : options[key] = segs[j].own[key]
    /\ IF j = Len(segs)
       THEN DOMAIN options = DOMAIN segs[j].own
       ELSE /\ DOMAIN options
                 = DOMAIN segs[j].own
                     \cup {S_target_protocol, S_target_options, S_fo}
            /\ options[S_target_protocol] = segs[j + 1].protocol
            /\ options[S_fo] = PathFrom(segs, j + 1)
            /\ NestedAs(options[S_target_options], segs, j + 1)

WriteExpanded ==
    /\ result # Pending
    /\ call.fn = "expand_paths_if_needed"
    /\ Contains(call.mode, "w")
    /\ ~result.raised

\* the paths generated from the list, a mask standing for n names: the
\* names of a template in index order, a path without mask as it is
Generated(paths, n) ==
    Flatten([i \in 1..Len(paths) |->
                IF OneMask(paths[i])
                THEN [k \in 1..n |->
                         Filled(paths[i], Padded(k - 1, Width(n)))]
                ELSE <<paths[i]>>])

\* the first n of v, all of v when there are no more than n
Truncated(v, n) == IF Len(v) > n THEN SubSeq(v, 1, n) ELSE v

ReadResolved ==
    /\ call.fn = "get_fs_token_paths"
    /\ result # Pending
    /\ ~result.raised
    /\ ~Contains(call.mode, "w")
    /\ IF call.urlpath.islist
       THEN \A i \in 1..Len(call.urlpath.v) : ~Chained(call.urlpath.v[i])
       ELSE ~Chained(call.urlpath.v)

\* what a path stands for in read mode: the files matching it, sorted and
\* without the directories, when it holds a wildcard; itself otherwise
GlobbedOrSame(path) ==
    IF Contains(path, "*")
    THEN sorted({f \in StoredFiles : GlobMatch(path, f)})
    ELSE <<path>>

\* C23: in read mode the returned paths are, for a string, the sorted
\* matches of the stripped path without the directories when it holds a
\* wildcard and the stripped path alone otherwise; for a list, the same for
\* every element, each at its position.
C23_GlobSortedNoDirs ==
    ReadResolved =>
        LET cls == result.value[1].cls
            u   == call.urlpath.v
        IN  IF call.urlpath.islist
            THEN result.value[3]
                   = Flatten([i \in 1..Len(u) |->
                                 GlobbedOrSame(_strip_protocol(cls, u[i]))])
            ELSE result.value[3] = GlobbedOrSame(_strip_protocol(cls, u))

(***************************************************************************)
(* Entering and leaving a collection, checked under SpecFiles.             *)
(***************************************************************************)
\* the collection has just been entered
FilesEntered == ev.op = "files_enter"

\* the calls of each member's own op, once each, in list order
EachMember(op) ==
    [k \in 1..Len(openfiles.items) |->
        Called(op, k, openfiles.items[k].path)]

\* the filesystem of the collection has open_many itself
Exposes(fsys) == Len(fsys.layers) >= 1 /\ fsys.layers[1]

\* the filesystem of the collection, or one reached from it through the
\* attribute fs, has open_many
ExposesBelow(fsys) == \E i \in 1..Len(fsys.layers) : fsys.layers[i]

\* the only call made is op, on the first filesystem that has open_many
OneBatchCall(op) ==
    /\ Len(trace) = 1
    /\ trace[1].op = op
    /\ openfiles.fs.layers[trace[1].i]
    /\ \A j \in 1..(trace[1].i - 1) : ~openfiles.fs.layers[j]

\* the stream entry returned for member k is the last layer the member
\* tracks
OwnStreams ==
    /\ Len(openfiles.out) = Len(openfiles.items)
    /\ \A k \in 1..Len(openfiles.items) :
          /\ openfiles.items[k].fobjects # << >>
          /\ openfiles.out[k]
               = openfiles.items[k].fobjects[Len(openfiles.items[k].fobjects)]

\* C24 (as stated): an entry that does not fail is one open_many call, its
\* streams stored and returned and no member entered, when the filesystem of
\* the collection has open_many itself; otherwise it is each member's
\* __enter__, once, in list order, the streams returned in that order.
C24_BatchIfExposed ==
    (FilesEntered /\ ~ev.raised) =>
        IF Exposes(openfiles.fs)
        THEN /\ OneBatchCall("open_many")
             /\ openfiles.files = openfiles.out
             /\ Len(openfiles.out) = Len(openfiles.items)
        ELSE trace = EachMember("enter") /\ OwnStreams

\* C24 (amended): entering a collection that has no filesystem fails with
\* ValueError and calls nothing.  When the filesystem of the collection, or
\* one reached from it through the attribute fs, has open_many, the entry is
\* exactly one open_many call on the first such filesystem: one stream for
\* each member, stored and returned, and no member is entered.  Otherwise an
\* entry that does not fail is each member's __enter__, once, in list
\* order, and returns the members' streams in that order.
C24_BatchIfExposedBelow ==
    FilesEntered =>
        IF openfiles.fs = NoFs
        THEN ev.raised /\ ev.error = "ValueError" /\ trace = << >>
        ELSE IF ExposesBelow(openfiles.fs)
        THEN /\ ~ev.raised
             /\ OneBatchCall("open_many")
             /\ openfiles.files = openfiles.out
             /\ Len(openfiles.out) = Len(openfiles.items)
             /\ \A k \in 1..Len(openfiles.items) :
                   openfiles.items[k].fobjects = << >>
        ELSE ~ev.raised =>
                /\ trace = EachMember("enter")
                /\ OwnStreams
                /\ openfiles.files = << >>

\* two members on a filesystem that wraps one with open_many: one call, on
\* the wrapped filesystem, two streams
C24_Witness ==
    /\ FilesEntered
    /\ openfiles.fs.layers = <<FALSE, TRUE>>
    /\ Len(openfiles.items) = 2
    /\ trace = <<Called("open_many", 2, << >>)>>
    /\ Len(openfiles.out) = 2
    /\ openfiles.files = openfiles.out

\* the collection has just been left
FilesExited == ev.op = "files_exit"

\* the streams stored at entry are all closed
StoredClosed == \A f \in Range(openfiles.out) : heap[f].closed

\* C25 (as stated): an exit that does not fail is, for a write-mode
\* collection whose filesystem has the batch capability itself, one
\* commit_many call on the streams stored at entry, after which the stored
\* list is empty, and no member's __exit__; otherwise, and for every
\* read-mode collection, it is each member's __exit__, once, in list order.
C25_CommitIfExposed ==
    (FilesExited /\ ~ev.raised) =>
        IF ~Contains(openfiles.mode, "r") /\ Exposes(openfiles.fs)
        THEN /\ OneBatchCall("commit_many")
             /\ openfiles.files = << >>
        ELSE trace = EachMember("exit")

\* C25 (amended): when the mode of the collection holds no "r" and its
\* filesystem, or one reached from it through the attribute fs, has the
\* batch capability, the exit is exactly one commit_many call on the first
\* such filesystem with the streams stored at entry, and no member's
\* __exit__; unless the commit fails, the stored list is then empty and the
\* streams are closed.  Otherwise, and for every mode that holds "r", an
\* exit that does not fail is each member's __exit__, once, in list order;
\* one that fails stops at the failing member.
C25_CommitIfExposedBelow ==
    FilesExited =>
        IF ~Contains(openfiles.mode, "r") /\ ExposesBelow(openfiles.fs)
        THEN /\ OneBatchCall("commit_many")
             /\ ~ev.raised => openfiles.files = << >> /\ StoredClosed
        ELSE /\ Len(trace) <= Len(openfiles.items)
             /\ trace = SubSeq(EachMember("exit"), 1, Len(trace))
             /\ ~ev.raised => trace = EachMember("exit")

\* a write-mode collection of two members, entered on a filesystem that
\* wraps one with the batch capability, and left: one commit_many on the
\* wrapped filesystem, the two streams closed, the stored list empty
C25_Witness ==
    /\ FilesExited
    /\ ~ev.raised
    /\ openfiles.mode = S_wb
    /\ openfiles.fs.layers = <<FALSE, TRUE>>
    /\ Len(openfiles.out) = 2
    /\ trace = <<Called("commit_many", 2, << >>)>>
    /\ openfiles.files = << >>
    /\ StoredClosed

\* member k of the collection is open: it tracks layers, none of them closed
MemberOpen(k) ==
    /\ openfiles.items[k].fobjects # << >>
    /\ \A f \in Range(openfiles.items[k].fobjects) : ~heap[f].closed

\* the collection is on a filesystem without the batch capability
NoBatch == openfiles.fs # NoFs /\ ~ExposesBelow(openfiles.fs)

\* the entry of the collection failed at a member: fewer streams were
\* returned than there are members
EntryFailed ==
    /\ NoBatch
    /\ openfiles.entries = 1
    /\ Len(openfiles.out) < Len(openfiles.items)

\* the collection has been entered once, and has just been
FirstEntry == FilesEntered /\ NoBatch /\ openfiles.entries = 1

\* C26: on a filesystem without the batch capability, when member k fails
\* during the first entry of the collection, the member's error is the
\* error of the entry (OSError of fs.open, LookupError of the text wrapper), the
\* members before k have been entered in list order and stay open, the
\* members after k are not entered and track nothing; an entry that ends
\* without error has opened every member; and an exit after the failed
\* entry, when no close fails, leaves every stream that was opened closed
\* and every member's list of layers empty.
C26_NoRollback ==
    /\ (FirstEntry /\ ev.raised) =>
          LET k == Len(trace)
          IN  /\ k \in 1..Len(openfiles.items)
              /\ trace = SubSeq(EachMember("enter"), 1, k)
              /\ ev.error = IF openfiles.items[k].fobjects = << >>
                            THEN "OSError" ELSE "LookupError"
              /\ Len(openfiles.out) = k - 1
              /\ \A j \in 1..(k - 1) : MemberOpen(j)
              /\ \A j \in (k + 1)..Len(openfiles.items) :
                    openfiles.items[j].fobjects = << >>
              /\ Len(heap) <= 2 * k
    /\ (FirstEntry /\ ~ev.raised) =>
          /\ Len(openfiles.out) = Len(openfiles.items)
          /\ \A j \in 1..Len(openfiles.items) : MemberOpen(j)
    /\ (FilesExited /\ EntryFailed /\ ~ev.raised) =>
          /\ \A f \in 1..Len(heap) : heap[f].closed
          /\ \A j \in 1..Len(openfiles.items) :
                openfiles.items[j].fobjects = << >>
          /\ trace = EachMember("exit")

\* two members, the second fails to open: the first is open after the
\* entry
C26_Witness ==
    /\ FilesEntered
    /\ NoBatch
    /\ ev.raised
    /\ ev.error = "OSError"
    /\ Len(openfiles.items) = 2
    /\ Len(trace) = 2
    /\ MemberOpen(1)
    /\ openfiles.items[2].fobjects = << >>

\* the exit after such an entry: the first member's stream is closed
C26_ClosedAfterwards ==
    /\ FilesExited
    /\ EntryFailed
    /\ ~ev.raised
    /\ Len(openfiles.items) = 2
    /\ Len(openfiles.out) = 1
    /\ Len(heap) >= 1
    /\ \A f \in 1..Len(heap) : heap[f].closed

(***************************************************************************)
(* url_to_fs and get_fs_token_paths on the same string, checked under      *)
(* SpecChain.                                                              *)
(***************************************************************************)
\* url_to_fs has ended on a URL without "*"
UrlToFsDone ==
    /\ call.fn = "url_to_fs"
    /\ result # Pending
    /\ ~Contains(call.urlpath.v, "*")

\* get_fs_token_paths(url, storage_options=options): mode "rb", num 1, no
\* protocol argument
SameCallOfGfp ==
    get_fs_token_paths(call.urlpath, S_rb, 1, call.kwargs, NoneStr, TRUE)

\* g is the outcome of get_fs_token_paths that corresponds to the outcome of
\* url_to_fs: the same failure, or the same filesystem and the one path
Agree(g) ==
    /\ g.raised = result.raised
    /\ g.raised => g.error = result.error
    /\ ~g.raised =>
          /\ g.value[1] = result.value[1]
          /\ g.value[3] = <<result.value[2]>>

\* C27 (as stated): for every URL string without "*" and every option
\* bag, url_to_fs and get_fs_token_paths fail on the same inputs and
\* otherwise give the filesystem of the same protocol and options and the
\* same path, get_fs_token_paths as a list of one.
C27_SameResolution == UrlToFsDone => Agree(SameCallOfGfp)

\* every segment of the chain is a cache protocol given no target_protocol
AllBareCaches(url, kwargs) ==
    \A j \in 1..NumSegs(url) : BareCache(url, kwargs, j)

\* C27 with its exception stated: for every URL string without "*" and every option bag,
\* url_to_fs and get_fs_token_paths (mode "rb", no protocol argument) fail
\* on the same inputs with the same error and otherwise give the filesystem
\* of the same protocol and options and the same path,
\* get_fs_token_paths as a list of one; except for a chain all of whose
\* segments are cache protocols without target_protocol, where url_to_fs
\* returns the filesystem with None as the path and get_fs_token_paths,
\* having built the same filesystem, fails on stripping that path.
C27_SameResolutionWithPath ==
    UrlToFsDone =>
        LET u == call.urlpath.v
            g == SameCallOfGfp
        IN  IF Chained(u) /\ AllKnown(u) /\ AllBareCaches(u, call.kwargs)
            THEN /\ ~result.raised
                 /\ result.value[2] = NoneStr
                 /\ g.raised
                 /\ g.made = result.made
            ELSE /\ Agree(g)
                 /\ ~result.raised => result.value[2] # NoneStr

\* a cache over an ftp URL with a port given for ftp: both give the cache
\* filesystem with the ftp options as target_options and the path h/p
C27_Witness ==
    /\ UrlToFsDone
    /\ ~result.raised
    /\ call.urlpath.v = S_simplecache \o ChainSep \o S_ftp
                           \o <<":", "/", "/", "h", "/", "p">>
    /\ call.kwargs = (S_ftp :> (S_port :> <<"2">>))
    /\ result.value[2] = <<"h", "/", "p">>
    /\ SameCallOfGfp.value[3] = <<(<<"h", "/", "p">>)>>
    /\ SameCallOfGfp.value[1] = result.value[1]

(***************************************************************************)
(* A failing entry of an OpenFile, checked under Spec.                     *)
(***************************************************************************)
\* the number of layers a complete entry of the wrapper tracks
FullDepth ==
    1 + (IF wrapper.compression # None THEN 1 ELSE 0)
      + (IF ~Contains(wrapper.mode, "b") THEN 1 ELSE 0)

\* an entry has failed after it opened the raw stream: the tracked list is
\* a new one
EntryFailedAbove ==
    /\ ev.op \in EntryOps
    /\ ev.raised
    /\ wrapper.fobjects # ev.before

\* C28: when __enter__ fails after the raw stream was opened, because the
\* decompressor or the text wrapper cannot be built, the error is raised to
\* the caller, the layers opened so far (the raw stream first, each one
\* wrapping the one before, fewer than a complete entry tracks) are the
\* tracked list and none of them is closed; and a close() or __exit__ of
\* the wrapper that returns has called close() on the tracked layers in
\* reverse order, leaves them closed and the list empty.
C28_FailedEntryKeepsLayers ==
    /\ EntryFailedAbove =>
          LET fo == wrapper.fobjects
          IN  /\ ev.error \in {"OSError", "LookupError"}
              /\ ev.ret = 0
              /\ Len(fo) \in 1..(FullDepth - 1)
              /\ heap[fo[1]].kind = "raw"
              /\ \A i \in 2..Len(fo) :
                    heap[fo[i]].kind = "decomp" /\ heap[fo[i]].inner = fo[i - 1]
              /\ \A i \in 1..Len(fo) : ~heap[fo[i]].closed
              /\ Unpatched(fo)
    /\ (ev.op \in {"close", "exit"} /\ ~ev.raised /\ Unpatched(ev.before)) =>
          /\ wrapper.fobjects = << >>
          /\ ev.calls = Reverse(ev.before)
          /\ \A f \in Range(ev.before) : heap[f].closed

\* a gzip text wrapper whose text layer could not be built was closed: its
\* two layers, fewer than the three of a complete entry, were closed, the
\* decompressor before the raw stream
C28_Witness ==
    /\ ev.op = "close"
    /\ ~ev.raised
    /\ wrapper.compression = "gzip"
    /\ ~Contains(wrapper.mode, "b")
    /\ Len(ev.before) = 2
    /\ heap[ev.calls[1]].kind = "decomp"
    /\ heap[ev.calls[2]].kind = "raw"
    /\ wrapper.fobjects = << >>

(***************************************************************************)
(* The path of a cache segment, checked under SpecChain.                   *)
(***************************************************************************)
\* segment j stripped by its own class
OwnPath(url, j) == _strip_protocol(SegProtocol(url, j), chain_bits(url)[j])

\* all segments but the last are bare caches, the last is not
CachesOverStorage(url, kwargs) ==
    /\ Chained(url)
    /\ \A j \in 1..(NumSegs(url) - 1) : BareCache(url, kwargs, j)
    /\ ~BareCache(url, kwargs, NumSegs(url))

\* C29: in the descriptors _un_chain returns for a chain, a segment that is
\* blockcache, filecache or simplecache with no target_protocol among its
\* options has the path of the next inner segment's descriptor, every other
\* segment its own stripped path; so url_to_fs, for a chain whose segments
\* above the innermost are all such caches, returns the stripped path of the
\* innermost segment.
C29_CachePathFromInner ==
    /\ (UnChainDone /\ ~result.raised /\ Chained(call.urlpath.v)) =>
          LET u == call.urlpath.v
          IN  \A j \in 1..NumSegs(u) :
                 IF BareCache(u, call.kwargs, j)
                 THEN j < NumSegs(u) =>
                         result.value[j][1] = result.value[j + 1][1]
                 ELSE result.value[j][1] = OwnPath(u, j)
    /\ (call.fn = "url_to_fs" /\ result # Pending /\ ~result.raised
          /\ CachesOverStorage(call.urlpath.v, call.kwargs)) =>
          result.value[2]
              = OwnPath(call.urlpath.v, NumSegs(call.urlpath.v))

\* two caches over an ftp URL: url_to_fs returns the ftp path
C29_Witness ==
    /\ call.fn = "url_to_fs"
    /\ result # Pending
    /\ ~result.raised
    /\ call.urlpath.v = S_simplecache \o ChainSep \o S_filecache \o ChainSep
                           \o S_ftp \o <<":", "/", "/", "h", "/", "p">>
    /\ CachesOverStorage(call.urlpath.v, call.kwargs)
    /\ result.value[2] = <<"h", "/", "p">>

(***************************************************************************)
(* tutorials/count_occultations: the loop over the months.                 *)
(*                                                                         *)
(* A datetime is [year, month, day] (the time of day is always midnight).  *)
(* result is Pending before the loop, Looping in it, and the program's     *)
(* outcome after it: the list written, or the exception that ended it.     *)
(* trace holds the datetimerange of each db.query call.                    *)
(***************************************************************************)
\* datetime.MINYEAR and datetime.MAXYEAR
MINYEAR == 1

MAXYEAR == 9999

\* the most years between the two arguments
MaxSpan == 2

IsLeap(y) == y % 4 = 0 /\ (y % 100 # 0 \/ y % 400 = 0)

DaysIn(y, m) ==
    IF m = 2 THEN (IF IsLeap(y) THEN 29 ELSE 28)
    ELSE IF m \in {4, 6, 9, 11} THEN 30
    ELSE 31

\* datetime(year=y, month=m, day=d)
datetime(y, m, d) ==
    IF y \in MINYEAR..MAXYEAR /\ m \in 1..12 /\ d \in 1..DaysIn(y, m)
    THEN Ok([year |-> y, month |-> m, day |-> d], << >>)
    ELSE Raise("ValueError", << >>)

\* a <= b for datetimes
Before(a, b) ==
    \/ a.year < b.year
    \/ a.year = b.year /\ a.month < b.month
    \/ a.year = b.year /\ a.month = b.month /\ a.day <= b.day

\* dt + timedelta(days=days)
RECURSIVE PlusDays(_, _)
PlusDays(dt, days) ==
    IF dt.day + days <= DaysIn(dt.year, dt.month)
    THEN Ok([dt EXCEPT !.day = @ + days], << >>)
    ELSE IF dt.month = 12 /\ dt.year = MAXYEAR
    THEN Raise("OverflowError", << >>)
    ELSE PlusDays([year  |-> IF dt.month = 12 THEN dt.year + 1 ELSE dt.year,
                   month |-> IF dt.month = 12 THEN 1 ELSE dt.month + 1,
                   day   |-> 1],
                  days - (DaysIn(dt.year, dt.month) - dt.day + 1))

\* dt.isoformat() at midnight
isoformat(dt) ==
    Padded(dt.year, 4) \o <<"-">> \o Padded(dt.month, 2) \o <<"-">>
        \o Padded(dt.day, 2)
        \o <<"T", "0", "0", ":", "0", "0", ":", "0", "0">>

\* monthly_occs.info("mission") of the soundings in the range: what the
\* database holds is fixed, one mission from 2006 on
Missions(dt) == IF dt.year >= 2006 THEN {"cosmic1"} ELSE {}

\* rec = {'year': ..., 'month': ..., 'noccs': {mission: size}}
Record(dt) ==
    [year |-> dt.year, month |-> dt.month,
     noccs |-> [mission \in Missions(dt) |-> 1]]

\* variant: the day 31 days ahead is taken as it is
NextMonth_unaligned(dt) == PlusDays(dt, 31)

\* tmp = month + timedelta(days=31)
\* nextmonth = datetime(year=tmp.year, month=tmp.month, day=1)
NextMonth(dt) ==
    LET tmp == PlusDays(dt, 31)
    IN  IF tmp.raised THEN tmp
        ELSE datetime(tmp.value.year, tmp.value.month, 1)

Looping == [status |-> "loop"]

\* the years given on the command line: around the first year datetime
\* has, recent years, and around the last year datetime has
Years ==
    ((MINYEAR - 1)..(MINYEAR + MaxSpan - 1))
        \cup (2023..(2023 + MaxSpan))
        \cup ((MAXYEAR - MaxSpan + 1)..(MAXYEAR + 1))

\* start_year and end_year: no further apart than MaxSpan
YearPairs ==
    {p \in Years \X Years : p[2] - p[1] \in (0 - MaxSpan)..MaxSpan}

CountCalls ==
    {[fn |-> "count_occultations", start_year |-> p[1], end_year |-> p[2]] :
         p \in YearPairs}

MonthsInit ==
    /\ OpenFileInit
    /\ call \in CountCalls
    /\ result = Pending

\* startmonth = datetime(year=args.start_year, month=1, day=1)
\* endmonth = datetime(year=args.end_year, month=12, day=1)
\* month = startmonth + timedelta(seconds=0); alldata = []
StartLoop ==
    /\ call.fn = "count_occultations"
    /\ result = Pending
    /\ \E startmonth \in {datetime(call.start_year, 1, 1)},
          endmonth \in {datetime(call.end_year, 12, 1)} :
          IF startmonth.raised \/ endmonth.raised
          THEN /\ result' = Done(Raise("ValueError", << >>))
               /\ UNCHANGED loopvars
          ELSE /\ result' = Looping
               /\ month' = startmonth.value
               /\ alldata' = << >>
    /\ UNCHANGED <<ofvars, call, filesvars>>

\* one pass of "while month <= endmonth": the query of the month, its
\* record appended, month = nextmonth
MonthStep ==
    /\ result = Looping
    /\ Before(month, datetime(call.end_year, 12, 1).value)
    /\ \E nextmonth \in {NextMonth(month)} :
          IF nextmonth.raised
          THEN /\ result' = Done(Raise(nextmonth.error, << >>))
               /\ UNCHANGED <<trace, loopvars>>
          ELSE /\ trace' = Append(trace, <<isoformat(month),
                                           isoformat(nextmonth.value)>>)
               /\ alldata' = Append(alldata, Record(month))
               /\ month' = nextmonth.value
               /\ UNCHANGED result
    /\ UNCHANGED <<ofvars, call, openfiles>>

\* the loop has ended: json.dump(alldata, out)
WriteOutput ==
    /\ result = Looping
    /\ ~Before(month, datetime(call.end_year, 12, 1).value)
    /\ result' = Done(Ok(alldata, << >>))
    /\ UNCHANGED <<ofvars, call, filesvars, loopvars>>

MonthsNext ==
    \/ StartLoop
    \/ MonthStep
    \/ WriteOutput

SpecMonths == MonthsInit /\ [][MonthsNext]_vars

\* the program is a single thread that runs until it ends
SpecMonthsFair == SpecMonths /\ WF_vars(MonthsNext)

(***************************************************************************)
(* Properties of the month loop, checked under SpecMonths.                 *)
(***************************************************************************)
\* the program has ended
Ended == call.fn = "count_occultations" /\ result.status = "done"

\* the calendar months from January of year s through December of year e,
\* in chronological order
MonthsOf(s, e) ==
    [i \in 1..(IF s <= e THEN 12 * (e - s + 1) ELSE 0) |->
        [year |-> s + ((i - 1) \div 12), month |-> ((i - 1) % 12) + 1,
         day |-> 1]]

\* the first day of the month after dt
FirstOfNext(dt) ==
    IF dt.month = 12 THEN [year |-> dt.year + 1, month |-> 1, day |-> 1]
    ELSE [dt EXCEPT !.month = @ + 1]

\* one query for each of the months, from its first day up to the first
\* day of the next month, and one record for each
QueriedAll(months) ==
    /\ trace = [i \in 1..Len(months) |->
                   <<isoformat(months[i]), isoformat(FirstOfNext(months[i]))>>]
    /\ alldata = [i \in 1..Len(months) |-> Record(months[i])]

\* C30 (as stated, for years that datetime has): the program ends by
\* writing its list, having made exactly one query for each calendar month
\* from January of start_year through December of end_year, in
\* chronological order, each from the first day of the month up to the first
\* day of the next, and appended one record for each; no query and an empty
\* list when start_year > end_year.
C30_QueryEveryMonth ==
    (Ended /\ {call.start_year, call.end_year} \subseteq MINYEAR..MAXYEAR) =>
        /\ ~result.raised
        /\ QueriedAll(MonthsOf(call.start_year, call.end_year))
        /\ result.value = alldata
        /\ call.start_year > call.end_year =>
              trace = << >> /\ result.value = << >>

\* C30 for the years below the last one: the same for start_year and
\* end_year from MINYEAR to MAXYEAR - 1.  With end_year = MAXYEAR and
\* start_year no later, the month after December cannot be computed: the
\* program ends in OverflowError having queried the months before that
\* December, and writes nothing.  A year outside MINYEAR..MAXYEAR ends it in
\* ValueError before any query.
C30_QueryEveryMonthBelowLast ==
    Ended =>
        LET s == call.start_year
            e == call.end_year
        IN  IF ~({s, e} \subseteq MINYEAR..MAXYEAR)
            THEN result.raised /\ result.error = "ValueError" /\ trace = << >>
            ELSE IF e = MAXYEAR /\ s <= e
            THEN /\ result.raised
                 /\ result.error = "OverflowError"
                 /\ LET months == MonthsOf(s, e)
                    IN  QueriedAll(SubSeq(months, 1, Len(months) - 1))
            ELSE /\ ~result.raised
                 /\ QueriedAll(MonthsOf(s, e))
                 /\ result.value = alldata
                 /\ s > e => trace = << >> /\ result.value = << >>

\* C30, termination: under SpecMonthsFair the program ends, for every
\* start_year and end_year.
C30_Terminates == <>(result.status = "done")

\* the years 2023 to 2025 were counted: 36 queries, the last one for
\* December 2025 up to the first day of 2026; February of the leap year 2024
\* up to the first of March
C30_Witness ==
    /\ Ended
    /\ ~result.raised
    /\ call.start_year = 2023
    /\ call.end_year = 2025
    /\ Len(trace) = 36
    /\ trace[14] = <<isoformat([year |-> 2024, month |-> 2, day |-> 1]),
                     isoformat([year |-> 2024, month |-> 3, day |-> 1])>>
    /\ trace[36][2] = <<"2", "0", "2", "6", "-", "0", "1", "-", "0", "1",
                        "T", "0", "0", ":", "0", "0", ":", "0", "0">>
    /\ Len(result.value) = 36

====
